---- MODULE Spec2Model ----
(***************************************************************************)
(* Model of the insight-generation pipeline of src/src/insights_automation.py *)
(* (relatrino-code/PPT_Automation): the response parser/normaliser, the    *)
(* prompt composer and the orchestrator generate_and_paste_insights.       *)
(*                                                                         *)
(* A Python str is modelled as a tuple of one-character strings, so that   *)
(* the regular expressions of the parser are computed character by         *)
(* character.  Python's None is the value None below.                      *)
(***************************************************************************)
EXTENDS Integers, Sequences, FiniteSets, TLC

\* Python's None.  A one-element tuple whose element is not a single character:
\* it differs from every text, and compares with texts without a type error.
None == <<"None">>

(***************************************************************************)
(* Characters and character classes (Python re, str patterns).             *)
(***************************************************************************)
UpperLetters == <<"A", "B", "C", "D", "E", "F", "G", "H", "I", "J", "K", "L", "M", "N", "O", "P", "Q", "R",
      "S", "T", "U", "V", "W", "X", "Y", "Z">>

LowerLetters == <<"a", "b", "c", "d", "e", "f", "g", "h", "i", "j", "k", "l", "m", "n", "o", "p", "q", "r",
      "s", "t", "u", "v", "w", "x", "y", "z">>

\* The character ` (U+0060), which a TLA+ string cannot hold.
Backquote == "BACKQUOTE"

Digits == {"0", "1", "2", "3", "4", "5", "6", "7", "8", "9"}

\* \s
Whitespace == {" ", "\n", "\t", "\r"}

Range(f) == {f[i] : i \in DOMAIN f}

\* \w
WordChars == Range(UpperLetters) \cup Range(LowerLetters) \cup Digits \cup {"_"}

\* re.IGNORECASE compares characters by their lower-case form.
ToLower(c) ==
    IF c \in Range(UpperLetters)
    THEN LowerLetters[CHOOSE i \in DOMAIN UpperLetters : UpperLetters[i] = c]
    ELSE c

DigitValue(c) ==
    CASE c = "0" -> 0 [] c = "1" -> 1 [] c = "2" -> 2 [] c = "3" -> 3 [] c = "4" -> 4
      [] c = "5" -> 5 [] c = "6" -> 6 [] c = "7" -> 7 [] c = "8" -> 8 [] c = "9" -> 9

DigitChar(d) ==
    CASE d = 0 -> "0" [] d = 1 -> "1" [] d = 2 -> "2" [] d = 3 -> "3" [] d = 4 -> "4"
      [] d = 5 -> "5" [] d = 6 -> "6" [] d = 7 -> "7" [] d = 8 -> "8" [] d = 9 -> "9"

MinOf(S) == CHOOSE x \in S : \A y \in S : x <= y

MaxOf(S) == CHOOSE x \in S : \A y \in S : y <= x

\* The least and the greatest element of a set of positions, 0 if it is empty.
Least(S) == IF S = {} THEN 0 ELSE MinOf(S)

Greatest(S) == IF S = {} THEN 0 ELSE MaxOf(S)

\* s[i:] and s[:i] with 1-based positions.
From(s, i) == SubSeq(s, i, Len(s))

Upto(s, i) == SubSeq(s, 1, i)

\* str.strip()
strip(s) ==
    LET keep == {i \in 1..Len(s) : s[i] \notin Whitespace}
    IN  IF keep = {} THEN <<>> ELSE SubSeq(s, MinOf(keep), MaxOf(keep))

\* The literal lit stands in s at position i (case-sensitively).
LitAt(s, i, lit) ==
    /\ i >= 1
    /\ i + Len(lit) - 1 <= Len(s)
    /\ \A k \in 1..Len(lit) : s[i + k - 1] = lit[k]

\* The same under re.IGNORECASE.
LitAtCI(s, i, lit) ==
    /\ i >= 1
    /\ i + Len(lit) - 1 <= Len(s)
    /\ \A k \in 1..Len(lit) : ToLower(s[i + k - 1]) = ToLower(lit[k])

\* str.startswith
startswith(s, prefix) == LitAt(s, 1, prefix)

\* The first position at or after i whose character is not in class, Len(s)+1 if none:
\* the end of a greedy run class* that starts at i.
RunEnd(s, i, class) ==
    LET stop == {j \in i..Len(s) : s[j] \notin class}
    IN  IF stop = {} THEN Len(s) + 1 ELSE MinOf(stop)

\* ^ under re.MULTILINE: the start of the text or the position after a line break.
LineStart(s, i) == i = 1 \/ (i > 1 /\ i <= Len(s) + 1 /\ s[i - 1] = "\n")

\* \b: exactly one of the characters before and at position i is a word character.
WordBoundary(s, i) ==
    LET before == i > 1 /\ i - 1 <= Len(s) /\ s[i - 1] \in WordChars
        at     == i >= 1 /\ i <= Len(s) /\ s[i] \in WordChars
    IN  before # at

\* Python truthiness of an optional str: neither None nor "".
\* A test that takes the empty text for a value: v is not None.
NotNone(v) == v # None

Truthy(v) == v # None /\ v # <<>>

(***************************************************************************)
(* Decimal numbers.                                                        *)
(***************************************************************************)
RECURSIVE DigitsToNat(_)
DigitsToNat(ds) ==
    IF ds = <<>> THEN 0
    ELSE 10 * DigitsToNat(Upto(ds, Len(ds) - 1)) + DigitValue(ds[Len(ds)])

RECURSIVE NatToText(_)
NatToText(n) ==
    IF n < 10 THEN <<DigitChar(n)>>
    ELSE Append(NatToText(n \div 10), DigitChar(n % 10))

AllDigits(s) == s # <<>> /\ \A i \in 1..Len(s) : s[i] \in Digits

(***************************************************************************)
(* format_large_number and format_percentage.                              *)
(***************************************************************************)
\* The thresholds of format_large_number and format_percentage.
Million == 1000000

Thousand == 1000

PercentLimit == 120

\* num_str.replace(',', '').replace('K','000').replace('M','000000')
RECURSIVE ExpandSuffixes(_)
ExpandSuffixes(s) ==
    IF s = <<>> THEN <<>>
    ELSE LET c == s[1]
             head == CASE c = "," -> <<>>
                       [] c = "K" -> <<"0", "0", "0">>
                       [] c = "M" -> <<"0", "0", "0", "0", "0", "0">>
                       [] OTHER   -> <<c>>
         IN  head \o ExpandSuffixes(Tail(s))

RECURSIVE Pow2Mod5(_)
Pow2Mod5(k) == IF k = 0 THEN 1 ELSE (2 * Pow2Mod5(k - 1)) % 5

\* The largest e with 2^e * den <= num (num >= den): floor(log2(num/den)).
RECURSIVE Log2Floor(_, _)
Log2Floor(num, den) == IF 2 * den > num THEN 0 ELSE 1 + Log2Floor(num, 2 * den)

\* Round q + r/(2*half) to the nearest integer; a tie goes to the side where the
\* double lies: side = 0, the double is exact and the tie goes to even; side 1 or 2,
\* the double lies below the tie; side 3 or 4, above.
RoundNearest(q, r, half, side) ==
    IF r < half THEN q
    ELSE IF r > half THEN q + 1
    ELSE IF side = 0 THEN (IF q % 2 = 0 THEN q ELSE q + 1)
    ELSE IF side <= 2 THEN q ELSE q + 1

\* The side of the decimal tie (2q+1)/20 on which its nearest double lies: the
\* remainder mod 5 of (2q+1) * 2^(50-e), e = floor(log2((2q+1)/20)).
DoubleSide(q) == ((2 * q + 1) * Pow2Mod5((50 - Log2Floor(2 * q + 1, 20)) % 4)) % 5

\* The millions of num in tenths cut off, where the code rounds to the nearest.
MillionsTruncated(num) == num \div (Million \div 10)

\* f"{num / 1_000_000:.1f}" for an integer num >= 1,000,000, in tenths.  The
\* quotient is a binary double: a decimal tie q.5 tenths = (2q+1)/20 is rounded by
\* the side on which the nearest double lies (53-bit significand), and to even
\* when the double is exact.
MillionsTenths(num) ==
    RoundNearest(num \div (Million \div 10), num % (Million \div 10), Million \div 20,
                 DoubleSide(num \div (Million \div 10)))

\* f"{num / 1000:.0f}": a tie x.5 is an exact double and rounds to even.
\* The thousands of num rounded up, where the code rounds to the nearest.
ThousandsCeiling(num) == (num + Thousand - 1) \div Thousand

ThousandsRounded(num) == RoundNearest(num \div Thousand, num % Thousand, Thousand \div 2, 0)

\* tenths as a decimal with one digit after the point.
TenthsText(t) == NatToText(t \div 10) \o <<".", DigitChar(t % 10)>>

\* The K/M form of a non-negative integer num.
FormatMagnitude(num) ==
    IF num >= Million THEN TenthsText(MillionsTenths(num)) \o <<"M">>
    ELSE IF num >= Thousand THEN NatToText(ThousandsRounded(num)) \o <<"K">>
    ELSE NatToText(num)

\* cleaned is num_str without commas and with its suffixes expanded.
FormatCleaned(num_str, cleaned) ==
    IF ~AllDigits(cleaned) THEN num_str ELSE FormatMagnitude(DigitsToNat(cleaned))

\* format_large_number(num_str), for the strings built of digits, commas and K/M
\* suffixes (what replace_numbers passes) with a value below 2^31; float() raises
\* ValueError on the other strings modelled here and the string is returned unchanged.
format_large_number(num_str) == FormatCleaned(num_str, ExpandSuffixes(num_str))

SignificantIncrease == <<"a", " ", "s", "i", "g", "n", "i", "f", "i", "c", "a", "n", "t", " ", "i", "n", "c", "r",
      "e", "a", "s", "e">>

SignificantDecrease == <<"a", " ", "s", "i", "g", "n", "i", "f", "i", "c", "a", "n", "t", " ", "d", "e", "c", "r",
      "e", "a", "s", "e">>

\* Whether the decimal significant (no leading zeros) followed by the fraction
\* digits fracPart is above PercentLimit.
DigitsExceed(significant, fracPart) ==
    \/ Len(significant) > Len(NatToText(PercentLimit))
    \/ /\ Len(significant) <= Len(NatToText(PercentLimit))
       /\ \/ DigitsToNat(significant) > PercentLimit
          \/ /\ DigitsToNat(significant) = PercentLimit
             /\ \E i \in 1..Len(fracPart) : fracPart[i] # "0"

\* The same for the integer digits intPart, which may start with zeros.
PartsExceed(intPart, fracPart) ==
    DigitsExceed(From(intPart, RunEnd(intPart, 1, {"0"})), fracPart)

\* The same for an unsigned decimal whose point is at position dot (0 if none).
DecimalExceeds(body, dot) ==
    IF dot = 0 THEN PartsExceed(body, <<>>)
    ELSE PartsExceed(Upto(body, dot - 1), From(body, dot + 1))

MagnitudeExceeds(body) ==
    DecimalExceeds(body, Least({i \in 1..Len(body) : body[i] = "."}))

\* float(num_part_str) > 120 and < -120, for [+-]?digits(.digits)?
ExceedsLimit(num_part_str) ==
    MagnitudeExceeds(IF num_part_str[1] \in {"+", "-"} THEN Tail(num_part_str)
                     ELSE num_part_str)

\* format_percentage(perc_match): perc_str is group(1), num_part_str is group(2).
format_percentage(perc_str, num_part_str) ==
    IF ~ExceedsLimit(num_part_str) THEN perc_str
    ELSE IF num_part_str[1] = "-" THEN SignificantDecrease
    ELSE SignificantIncrease

(***************************************************************************)
(* The regular expressions of parse_llm_response.  Each XxxEnd(s, i) is    *)
(* the position after the match of the pattern that starts at position i,  *)
(* 0 when the pattern does not match there.  re.sub rewrites the leftmost  *)
(* match and goes on from its end.                                         *)
(***************************************************************************)
\* The smallest position >= i where lit stands (ignoring case), 0 if none: re.search.
SearchCI(s, i, lit) == Least({j \in i..Len(s) : LitAtCI(s, j, lit)})

\* No marker in text: the field stays None and the text is left as it is.
NoMarker(text) == [found |-> FALSE, field |-> None, rest |-> text]

\* The marker stands at position at of text (0: nowhere).
ExtractMarkerAt(text, marker, at) ==
    IF at = 0 THEN NoMarker(text)
    ELSE [found |-> TRUE,
          field |-> strip(From(text, at + Len(marker))),
          rest  |-> strip(Upto(text, at - 1))]

\* r"<marker>\s*(.*)" with IGNORECASE | MULTILINE | DOTALL: the match runs from the
\* first marker to the end of the text; group(1).strip() is the field and re.sub
\* leaves the text before the marker.
ExtractMarker(text, marker) == ExtractMarkerAt(text, marker, SearchCI(text, 1, marker))

ContextMarker(slide_num) ==
    CASE slide_num = 3 -> <<"C", "o", "n", "t", "e", "x", "t", " ", "S", "n", "i", "p", "p", "e", "t", " ", "f", "o",
      "r", " ", "S", "l", "i", "d", "e", " ", "2", " ", "-", " ", "O", "r", "g", "a", "n", "i",
      "c", " ", "O", "S", ":">>
      [] slide_num = 4 -> <<"C", "o", "n", "t", "e", "x", "t", " ", "S", "n", "i", "p", "p", "e", "t", " ", "f", "o",
      "r", " ", "S", "l", "i", "d", "e", " ", "2", " ", "-", " ", "O", "w", "n", "e", "d", " ",
      "C", "a", "m", "p", "a", "i", "g", "n", ":">>
      [] slide_num = 5 -> <<"C", "o", "n", "t", "e", "x", "t", " ", "S", "n", "i", "p", "p", "e", "t", " ", "f", "o",
      "r", " ", "S", "l", "i", "d", "e", " ", "2", " ", "-", " ", "P", "a", "i", "d", " ", "P",
      "a", "r", "t", "n", "e", "r", ":">>

SummaryMarker == <<"S", "u", "m", "m", "a", "r", "y", " ", "P", "h", "r", "a", "s", "e", ":">>

\* re.sub(r'^```text\s*', '', s, flags=re.IGNORECASE)
StripFenceOpen(s) ==
    LET fence == <<Backquote, Backquote, Backquote, "t", "e", "x", "t">>
    IN  IF LitAtCI(s, 1, fence) THEN From(s, RunEnd(s, Len(fence) + 1, Whitespace)) ELSE s

\* re.sub(r'\s*```$', '', s): $ is the end of the text or the position before a
\* final line break.
StripFenceClose(s) ==
    LET fence == <<Backquote, Backquote, Backquote>>
        n == IF s # <<>> /\ s[Len(s)] = "\n" THEN Len(s) - 1 ELSE Len(s)
        at == n - Len(fence) + 1
        ws == {i \in 1..at : \A j \in i..(at - 1) : s[j] \in Whitespace}
    IN  IF at >= 1 /\ LitAt(s, at, fence)
        THEN Upto(s, MinOf(ws) - 1) \o From(s, n + 1)
        ELSE s

\* re.sub(r'^Provide a brief summary of.*\.\s*', '', s, flags=re.IGNORECASE): .* stays
\* on the first line and backtracks to its last full stop.
StripEcho(s) ==
    LET echo == <<"P", "r", "o", "v", "i", "d", "e", " ", "a", " ", "b", "r", "i", "e", "f", " ", "s", "u",
      "m", "m", "a", "r", "y", " ", "o", "f">>
        lineEnd == RunEnd(s, Len(echo) + 1, Range(s) \ {"\n"})
        dots == {j \in (Len(echo) + 1)..(lineEnd - 1) : s[j] = "."}
    IN  IF LitAtCI(s, 1, echo) /\ dots # {}
        THEN From(s, RunEnd(s, MaxOf(dots) + 1, Whitespace))
        ELSE s

\* :?(\*\*?)?\s* from position i.
TrailerEnd(s, i) ==
    LET c == IF LitAt(s, i, <<":">>) THEN i + 1 ELSE i
        d == IF LitAt(s, c, <<"*", "*">>) THEN c + 2
             ELSE IF LitAt(s, c, <<"*">>) THEN c + 1 ELSE c
    IN  RunEnd(s, d, Whitespace)

\* r'^\s*(\*\*?)?Key Highlights:?(\*\*?)?\s*' at a line start i.
HeadingEnd(s, i) ==
    LET heading == <<"K", "e", "y", " ", "H", "i", "g", "h", "l", "i", "g", "h", "t", "s">>
        a == RunEnd(s, i, Whitespace)
        b == IF LitAt(s, a, <<"*", "*">>) /\ LitAtCI(s, a + 2, heading) THEN a + 2
             ELSE IF LitAt(s, a, <<"*">>) /\ LitAtCI(s, a + 1, heading) THEN a + 1
             ELSE IF LitAtCI(s, a, heading) THEN a ELSE 0
    IN  IF LineStart(s, i) /\ b # 0 THEN TrailerEnd(s, b + Len(heading)) ELSE 0

\* r'^\s*(\*\*?)?[\w\s]+<label>:?(\*\*?)?\s*' at a line start i, label = " Insight"
\* or " Performance": [\w\s]+ is greedy and runs over line breaks, so the match ends
\* at the last label that a run of word and space characters leads to.
LabelEnd(s, i, label) ==
    LET a == RunEnd(s, i, Whitespace)
        starred == LitAt(s, a, <<"*">>)
        lo == IF starred THEN (IF LitAt(s, a, <<"*", "*">>) THEN a + 2 ELSE a + 1) ELSE i
        r == RunEnd(s, lo, WordChars \cup Whitespace)
        es == {e \in (lo + 1)..r : LitAtCI(s, e, label)}
    IN  IF LineStart(s, i) /\ es # {} THEN TrailerEnd(s, MaxOf(es) + Len(label)) ELSE 0

\* re.sub of the heading pattern from position i; j is the start of the leftmost
\* match at or after i, 0 if there is none.
RECURSIVE RemoveHeadings(_, _)
RemoveHeadingAt(s, i, j) ==
    IF j = 0 THEN From(s, i)
    ELSE SubSeq(s, i, j - 1) \o RemoveHeadings(s, HeadingEnd(s, j))

RemoveHeadings(s, i) ==
    RemoveHeadingAt(s, i, Least({j \in i..Len(s) : HeadingEnd(s, j) # 0}))

RECURSIVE RemoveLabels(_, _, _)
RemoveLabelAt(s, i, label, j) ==
    IF j = 0 THEN From(s, i)
    ELSE SubSeq(s, i, j - 1) \o RemoveLabels(s, LabelEnd(s, j, label), label)

RemoveLabels(s, i, label) ==
    RemoveLabelAt(s, i, label, Least({j \in i..Len(s) : LabelEnd(s, j, label) # 0}))

NotAvailable == <<"N", "/", "A">>

\* r'\[[^\]]*\]' at position i: from a '[' to the next ']'.
BracketEnd(s, i) ==
    IF LitAt(s, i, <<"[">>) /\ \E j \in (i + 1)..Len(s) : s[j] = "]"
    THEN RunEnd(s, i + 1, Range(s) \ {"]"}) + 1
    ELSE 0

\* re.sub(r'\[[^\]]*\]', 'N/A', s)
RECURSIVE ReplaceBrackets(_, _)
ReplaceBracketAt(s, i, j) ==
    IF j = 0 THEN From(s, i)
    ELSE SubSeq(s, i, j - 1) \o NotAvailable \o ReplaceBrackets(s, BracketEnd(s, j))

ReplaceBrackets(s, i) ==
    ReplaceBracketAt(s, i, Least({j \in i..Len(s) : BracketEnd(s, j) # 0}))

\* The end of group(2) of percent_pattern, [+-]?\d+(?:\.\d+)?, from position i when
\* the percent tail follows it; 0 if there is no number.
FractionEnd(s, j, d) ==
    IF d = j THEN 0
    ELSE IF LitAt(s, d, <<".">>) /\ RunEnd(s, d + 1, Digits) > d + 1
    THEN RunEnd(s, d + 1, Digits)
    ELSE d

UnsignedEnd(s, j) == FractionEnd(s, j, RunEnd(s, j, Digits))

PercentNumberEnd(s, i) ==
    UnsignedEnd(s, IF LitAt(s, i, <<"+">>) \/ LitAt(s, i, <<"-">>) THEN i + 1 ELSE i)

\* group(3), \s*%\s*(?:WoW)?\b, from position i: the second \s* is greedy and gives
\* back characters until the optional WoW and the word boundary fit.
WoW == <<"W", "o", "W">>

\* (?:WoW)?\b at position k.
QualifierEnd(s, k) ==
    IF k = 0 THEN 0
    ELSE IF LitAtCI(s, k, WoW) /\ WordBoundary(s, k + Len(WoW)) THEN k + Len(WoW)
    ELSE IF WordBoundary(s, k) THEN k
    ELSE 0

\* %\s*(?:WoW)?\b with the percent sign expected at position w.
PercentSignEnd(s, w) ==
    IF ~LitAt(s, w, <<"%">>) THEN 0
    ELSE QualifierEnd(s, Greatest({k \in (w + 1)..RunEnd(s, w + 1, Whitespace) :
                                      QualifierEnd(s, k) # 0}))

PercentTailEnd(s, i) == IF i = 0 THEN 0 ELSE PercentSignEnd(s, RunEnd(s, i, Whitespace))

\* percent_pattern at position i: the digits and the fraction are greedy, and giving
\* characters back never lets the tail match (it would have to start at a digit or ".").
PercentEnd(s, i) == PercentTailEnd(s, PercentNumberEnd(s, i))

\* re.sub(percent_pattern, format_percentage, s, flags=re.IGNORECASE)
\* The match of percent_pattern from j to e (exclusive), its group(2) ending at n.
RECURSIVE FormatPercentages(_, _)
FormatPercentageMatch(s, i, j, n, e) ==
    SubSeq(s, i, j - 1)
        \o format_percentage(SubSeq(s, j, e - 1), SubSeq(s, j, n - 1))
        \o FormatPercentages(s, e)

FormatPercentageAt(s, i, j) ==
    IF j = 0 THEN From(s, i)
    ELSE FormatPercentageMatch(s, i, j, PercentNumberEnd(s, j), PercentEnd(s, j))

FormatPercentages(s, i) ==
    FormatPercentageAt(s, i, Least({j \in i..Len(s) : PercentEnd(s, j) # 0}))

\* num_pattern, r'(?<![KM])\b(\d{1,3}(?:,\d{3})+|\d{4,})\b(?![KM])', at position i:
\* first the comma-grouped alternative (longest lead, most groups), then four or
\* more digits.
\* \b(?![KM]) at position e.
NumberCloses(s, e) == WordBoundary(s, e) /\ ~(e <= Len(s) /\ s[e] \in {"K", "M"})

\* \d{n}(?:,\d{3}){g}\b(?![KM]) at position i.
Grouped(s, i, n, g) ==
    /\ RunEnd(s, i, Digits) >= i + n
    /\ \A k \in 0..(g - 1) :
           /\ LitAt(s, i + n + 4 * k, <<",">>)
           /\ RunEnd(s, i + n + 4 * k + 1, Digits) >= i + n + 4 * k + 4
    /\ NumberCloses(s, i + n + 4 * g)

\* The end of the match given the ends ends of the comma-grouped alternative (the
\* regex takes the longest lead, then the most groups: the largest end) and the end
\* d of the digit run at i.
LongestNumberEnd(s, i, ends, d) ==
    IF ends # {} THEN MaxOf(ends)
    ELSE IF d >= i + 4 /\ NumberCloses(s, d) THEN d
    ELSE 0

NumberEnd(s, i) ==
    IF ~(WordBoundary(s, i) /\ ~(i > 1 /\ s[i - 1] \in {"K", "M"})) THEN 0
    ELSE LongestNumberEnd(s, i,
             {i + ng[1] + 4 * ng[2] :
                 ng \in {x \in (1..3) \X (1..((Len(s) - i) \div 4)) :
                            Grouped(s, i, x[1], x[2])}},
             RunEnd(s, i, Digits))

\* replace_numbers(text)
RECURSIVE replace_numbers(_, _)
ReplaceNumberMatch(s, i, j, e) ==
    SubSeq(s, i, j - 1) \o format_large_number(SubSeq(s, j, e - 1)) \o replace_numbers(s, e)

ReplaceNumberAt(s, i, j) ==
    IF j = 0 THEN From(s, i) ELSE ReplaceNumberMatch(s, i, j, NumberEnd(s, j))

replace_numbers(s, i) ==
    ReplaceNumberAt(s, i, Least({j \in i..Len(s) : NumberEnd(s, j) # 0}))

\* re.sub(r'\n{2,}', '\n', s)
RECURSIVE CollapseLineBreaks(_, _)
CollapseLineBreakAt(s, i, j) ==
    IF j = 0 THEN From(s, i)
    ELSE SubSeq(s, i, j - 1) \o <<"\n">> \o CollapseLineBreaks(s, RunEnd(s, j, {"\n"}))

CollapseLineBreaks(s, i) ==
    CollapseLineBreakAt(s, i, Least({j \in i..Len(s) : LitAt(s, j, <<"\n", "\n">>)}))

(***************************************************************************)
(* parse_llm_response                                                      *)
(***************************************************************************)
NoResponse == <<"[", "E", "r", "r", "o", "r", ":", " ", "N", "o", " ", "r", "e", "s", "p", "o", "n", "s",
      "e", " ", "f", "r", "o", "m", " ", "L", "L", "M", "]">>

ContextProducers == {3, 4, 5}

\* The clean-up and formatting of main_insight.
NormalizeInsight(text) ==
    LET t1 == strip(StripFenceOpen(text))
        t2 == strip(StripFenceClose(t1))
        t3 == strip(StripEcho(t2))
        t4 == strip(RemoveHeadings(t3, 1))
        t5 == strip(RemoveLabels(t4, 1, <<" ", "I", "n", "s", "i", "g", "h", "t">>))
        t6 == strip(RemoveLabels(t5, 1, <<" ", "P", "e", "r", "f", "o", "r", "m", "a", "n", "c", "e">>))
        t7 == strip(ReplaceBrackets(t6, 1))
        t8 == FormatPercentages(t7, 1)
        t9 == replace_numbers(t8, 1)
    IN  strip(CollapseLineBreaks(t9, 1))

\* The dictionary returned.
ParsedResult(main_insight, summary_phrase, context_snippet, is_chart_specific) ==
    IF is_chart_specific THEN [main_insight |-> main_insight]
    ELSE [main_insight |-> main_insight, summary_phrase |-> summary_phrase,
          context_snippet |-> context_snippet]

\* ctx and sum are the extractions of the context snippet and the summary phrase.
ParseBody(ctx, sum, is_chart_specific) ==
    ParsedResult(NormalizeInsight(sum.rest), sum.field, ctx.field, is_chart_specific)

ParseSummary(ctx, is_chart_specific) ==
    ParseBody(ctx,
              IF ~is_chart_specific THEN ExtractMarker(ctx.rest, SummaryMarker)
              ELSE NoMarker(ctx.rest),
              is_chart_specific)

parse_llm_response(slide_num, response_text, is_chart_specific) ==
    IF ~Truthy(response_text)
    THEN ParsedResult(NoResponse, None, None, is_chart_specific)
    ELSE ParseSummary(IF ~is_chart_specific /\ slide_num \in ContextProducers
                      THEN ExtractMarker(response_text, ContextMarker(slide_num))
                      ELSE NoMarker(response_text),
                      is_chart_specific)

(***************************************************************************)
(* Python dicts: a function from keys to values.                           *)
(***************************************************************************)
EmptyDict == [k \in {} |-> None]

\* d.get(key, default)
DictGet(d, key, default) == IF key \in DOMAIN d THEN d[key] ELSE default

\* d[key] = value
DictSet(d, key, value) == [k \in DOMAIN d \cup {key} |-> IF k = key THEN value ELSE d[k]]

\* A dict whose order of insertion matters is a sequence of entries with distinct
\* keys; d[key] = value replaces the entry of key in place or appends one.
EntrySet(d, entry) ==
    IF \E i \in 1..Len(d) : d[i].shape = entry.shape
    THEN [i \in 1..Len(d) |-> IF d[i].shape = entry.shape THEN entry ELSE d[i]]
    ELSE Append(d, entry)

(***************************************************************************)
(* build_prompt_for_slide.  The prompt is a text; of its fixed prose the    *)
(* model keeps the line that names the slide (or the chart), and it keeps  *)
(* every interpolated value: the three context slots of slide 2 and the    *)
(* marker line asked of the context-producing slides.  The data context    *)
(* (markdown tables of the slide) is left out.                             *)
(***************************************************************************)
\* The slides with a full-slide template.
TemplateSlides == {1, 2, 3, 4, 5, 6, 8, 9, 11}

ContextConsumer == 2

\* The slides handled chart by chart.
ChartSlides == {7, 10}

\* str(value) as str.format interpolates it.
FormatValue(v) == IF v = None THEN <<"N", "o", "n", "e">> ELSE v

OrganicSlot == <<"-", " ", "I", "f", " ", "o", "r", "g", "a", "n", "i", "c", " ", "d", "r", "i", "v", "e",
      "n", ",", " ", "m", "e", "n", "t", "i", "o", "n", " ", "O", "S", ":", " ">>

OwnedSlot == <<"-", " ", "I", "f", " ", "o", "w", "n", "e", "d", " ", "d", "r", "i", "v", "e", "n", ",",
      " ", "m", "e", "n", "t", "i", "o", "n", " ", "t", "o", "p", " ", "c", "a", "m", "p", "a",
      "i", "g", "n", ":", " ">>

PaidSlot == <<"-", " ", "I", "f", " ", "p", "a", "i", "d", " ", "d", "r", "i", "v", "e", "n", ",", " ",
      "m", "e", "n", "t", "i", "o", "n", " ", "m", "e", "d", "i", "a", " ", "p", "a", "r", "t",
      "n", "e", "r", ":", " ">>

\* extra_instructions of slide 2 after .format(...)
ExtraInstructions(slide_2_context_snippets) ==
    LET snippets == slide_2_context_snippets
    IN  <<"\n">> \o OrganicSlot \o FormatValue(DictGet(snippets, "organic_os", NotAvailable))
        \o <<"\n">> \o OwnedSlot \o FormatValue(DictGet(snippets, "owned_campaign", NotAvailable))
        \o <<"\n">> \o PaidSlot \o FormatValue(DictGet(snippets, "paid_partner", NotAvailable))

\* A chart focus is a record with focus = TRUE; no chart focus (None) is NoFocus.
NoFocus == [focus |-> FALSE]

build_prompt_for_slide(slide_num, slide_data, slide_2_context_snippets, chart_focus) ==
    IF chart_focus.focus
    THEN <<"C", "h", "a", "r", "t", ":", " ">> \o chart_focus.title \o <<" ", "o", "n", " ", "S", "l", "i", "d", "e", " ">> \o NatToText(slide_num)
    ELSE IF slide_num \notin TemplateSlides THEN None
    ELSE <<"T", "a", "r", "g", "e", "t", " ", "S", "l", "i", "d", "e", ":", " ">> \o NatToText(slide_num)
         \o (IF slide_num = ContextConsumer
             THEN ExtraInstructions(slide_2_context_snippets) ELSE <<>>)
         \o (IF slide_num \in ContextProducers
             THEN <<"\n", "F", "o", "r", "m", "a", "t", ":", " ">> \o ContextMarker(slide_num) ELSE <<>>)

(***************************************************************************)
(* function_4_call_llm.  The completion service answers with a reply or    *)
(* raises one of its errors; every error is caught and None is returned.   *)
(***************************************************************************)
ServiceErrors == {"authentication", "rate_limit", "connection", "api_error", "unexpected"}

\* A call that hands the class of the error back as its text, where the code
\* returns None.
ErrorAsText(prompt_string, client, outcome, reply) ==
    IF ~client THEN None
    ELSE IF ~Truthy(prompt_string) THEN None
    ELSE IF outcome = "ok" THEN strip(reply)
    ELSE <<"A", "P", "I", " ", "E", "r", "r", "o", "r">>

function_4_call_llm(prompt_string, client, outcome, reply) ==
    IF ~client THEN None
    ELSE IF ~Truthy(prompt_string) THEN None
    ELSE IF outcome = "ok" THEN strip(reply)
    ELSE None

(***************************************************************************)
(* Lines, and the leading bullet or number of a line.                      *)
(***************************************************************************)
\* The pieces of s between the characters of breaks, from position i.
RECURSIVE SplitAt(_, _, _)
SplitAt(s, i, breaks) ==
    LET e == RunEnd(s, i, Range(s) \ breaks)
    IN  IF e > Len(s) THEN <<From(s, i)>>
        ELSE <<SubSeq(s, i, e - 1)>> \o SplitAt(s, e + 1, breaks)

\* Every line trimmed, the empty ones kept.
EveryLine(lines) == [k \in 1..Len(lines) |-> strip(lines[k])]

\* [ln.strip() for ln in lines if ln.strip()]
StrippedLines(lines) ==
    SelectSeq([k \in 1..Len(lines) |-> strip(lines[k])], LAMBDA ln : ln # <<>>)

\* re.sub(r'^\s*[\d\-\*]+\.?\s*', '', line)
\* The bullet [\d\-\*]+ runs from a to b (exclusive).
StripBulletAt(line, a, b) ==
    IF b = a THEN line
    ELSE From(line, RunEnd(line, IF LitAt(line, b, <<".">>) THEN b + 1 ELSE b, Whitespace))

StripBulletFrom(line, a) == StripBulletAt(line, a, RunEnd(line, a, Digits \cup {"-", "*"}))

StripBullet(line) == StripBulletFrom(line, RunEnd(line, 1, Whitespace))

RECURSIVE Join(_, _)
Join(texts, sep) ==
    IF texts = <<>> THEN <<>>
    ELSE IF Len(texts) = 1 THEN texts[1]
    ELSE texts[1] \o sep \o Join(Tail(texts), sep)

(***************************************************************************)
(* paste_all_text_to_ppt.  A slide is the sequence of its shapes, a shape   *)
(* a record [name, has_text_frame, paragraphs]; fonts, sizes and colours    *)
(* are left out.                                                           *)
(***************************************************************************)
HEADING_TEXT == <<"K", "e", "y", " ", "H", "i", "g", "h", "l", "i", "g", "h", "t", "s">>

ErrorPrefix == <<"[", "E", "r", "r", "o", "r">>

\* The paragraphs a text frame holds after the paste of text_to_paste.
NumberedParagraphs(lines) ==
    <<HEADING_TEXT>>
        \o [k \in 1..Len(lines) |-> NatToText(k) \o <<".", " ">> \o strip(StripBullet(lines[k]))]

PastedParagraphs(text_to_paste, paste_type) ==
    IF paste_type \in {"key_highlight", "chart_specific"}
    THEN NumberedParagraphs(StrippedLines(SplitAt(text_to_paste, 1, {"\n"})))
    ELSE <<text_to_paste>>

\* The text pasted into every shape with the name of the entry, where the code
\* stops at the first.
PasteIntoEvery(shapes, entry, i) ==
    IF i = 0 THEN [shapes |-> shapes, failure |-> "Not Found"]
    ELSE [shapes |-> [j \in 1..Len(shapes) |->
                         IF strip(shapes[j].name) = strip(entry.shape) /\ shapes[j].has_text_frame
                         THEN [shapes[j] EXCEPT !.paragraphs =
                                   PastedParagraphs(entry.text, entry.type)]
                         ELSE shapes[j]],
          failure |-> ""]

\* One entry of a slide's map: the shapes after it and the failure it records ("" if
\* the text was pasted).
\* i is the first shape of the slide with the name of the entry, 0 if none.
PasteInto(shapes, entry, i) ==
    IF i = 0 THEN [shapes |-> shapes, failure |-> "Not Found"]
    ELSE IF ~shapes[i].has_text_frame
    THEN [shapes |-> shapes, failure |-> "No Text Frame"]
    ELSE [shapes |-> [shapes EXCEPT ![i].paragraphs =
                          PastedParagraphs(entry.text, entry.type)],
          failure |-> ""]

PasteEntry(shapes, entry) ==
    IF ~Truthy(entry.text) \/ startswith(entry.text, ErrorPrefix)
    THEN [shapes |-> shapes, failure |-> "Text Error"]
    ELSE PasteInto(shapes, entry,
                   Least({i \in 1..Len(shapes) :
                             strip(shapes[i].name) = strip(entry.shape)}))

\* The entries of one slide, from entry k on.
RECURSIVE PasteEntries(_, _, _, _)
\* rest is the outcome of the entries after entry k, failure that of entry k.
PasteJoin(slide_num, entry, failure, rest) ==
    [shapes |-> rest.shapes,
     failed_pastes |->
         (IF failure = "" THEN <<>>
          ELSE <<[slide |-> slide_num, shape |-> entry.shape, reason |-> failure]>>)
         \o rest.failed_pastes]

\* The entries of a slide given up at the first that cannot be placed.
PasteStop(slide_num, entries, k, one) ==
    PasteJoin(slide_num, entries[k], one.failure,
              IF one.failure = "" THEN PasteEntries(slide_num, one.shapes, entries, k + 1)
              ELSE [shapes |-> one.shapes, failed_pastes |-> <<>>])

PasteRest(slide_num, entries, k, one) ==
    PasteJoin(slide_num, entries[k], one.failure,
              PasteEntries(slide_num, one.shapes, entries, k + 1))

PasteEntries(slide_num, shapes, entries, k) ==
    IF k > Len(entries) THEN [shapes |-> shapes, failed_pastes |-> <<>>]
    ELSE PasteRest(slide_num, entries, k, PasteEntry(shapes, entries[k]))

\* failed_pastes of the slides from slide_num on, in sorted order.
RECURSIVE FailedPastes(_, _, _, _)
FailedPastes(prs, all_text_map, slide_num, last) ==
    IF slide_num > last THEN <<>>
    ELSE (IF slide_num \notin DOMAIN all_text_map THEN <<>>
          ELSE IF slide_num \notin DOMAIN prs
          THEN <<[slide |-> slide_num, shape |-> <<>>, reason |-> "Out of Range"]>>
          ELSE PasteEntries(slide_num, prs[slide_num], all_text_map[slide_num], 1).failed_pastes)
         \o FailedPastes(prs, all_text_map, slide_num + 1, last)

\* The deck after paste_all_text_to_ppt(prs, all_text_map); what it could not place
\* is FailedPastes(prs, all_text_map, 1, max(all_text_map)).
paste_all_text_to_ppt(prs, all_text_map) ==
    [prs |-> [s \in DOMAIN prs |->
                 IF s \in DOMAIN all_text_map
                 THEN PasteEntries(s, prs[s], all_text_map[s], 1).shapes
                 ELSE prs[s]]]

(***************************************************************************)
(* The run's inputs: the configuration file, the deck and the service.     *)
(***************************************************************************)
\* The largest deck, the most charts on a chart-driven slide, and the most units of
\* work of one run (an extraction, a resolved dataset, a completion call) that depart
\* from the expected outcome.
MaxSlides == 12

MaxCharts == 3

MaxFaults == 1

ConfigStates == {"valid", "absent", "invalid_json", "no_ppt_path", "no_output_path"}

InsightsBox == <<"I", "n", "s", "i", "g", "h", "t", "s", " ", "B", "o", "x">>

SummaryBox == <<"S", "u", "m", "m", "a", "r", "y", " ", "B", "o", "x">>

ContentPlaceholder14 == <<"C", "o", "n", "t", "e", "n", "t", " ", "P", "l", "a", "c", "e", "h", "o", "l", "d", "e",
      "r", " ", "1", "4">>

ContentPlaceholder15 == <<"C", "o", "n", "t", "e", "n", "t", " ", "P", "l", "a", "c", "e", "h", "o", "l", "d", "e",
      "r", " ", "1", "5">>

TemplateText == <<<<"C", "l", "i", "c", "k", " ", "t", "o", " ", "a", "d", "d", " ", "t", "e", "x", "t">>>>

\* The shapes of slide slide_num of the deck: a title, the narrative box, the summary
\* box and, on the chart-driven slides, the two chart text boxes.  Slide 6 has no
\* summary box, the summary box of slide 9 is a picture, and the narrative box of
\* slide 11 is named with a trailing blank.
DeckShapes(slide_num) ==
    <<[name |-> <<"T", "i", "t", "l", "e", " ", "1">>, has_text_frame |-> TRUE, paragraphs |-> <<<<"W", "e", "e", "k", "l", "y", " ", "r", "e", "p", "o", "r", "t">>>>],
      [name |-> IF slide_num = 11 THEN InsightsBox \o <<" ">> ELSE InsightsBox,
       has_text_frame |-> TRUE, paragraphs |-> TemplateText]>>
    \o (IF slide_num = 6 THEN <<>>
        ELSE <<[name |-> SummaryBox, has_text_frame |-> slide_num # 9,
                paragraphs |-> IF slide_num = 9 THEN <<>> ELSE TemplateText]>>)
    \o (IF slide_num \in ChartSlides
        THEN <<[name |-> ContentPlaceholder14, has_text_frame |-> TRUE,
                paragraphs |-> TemplateText],
               [name |-> ContentPlaceholder15, has_text_frame |-> TRUE,
                paragraphs |-> TemplateText]>>
        ELSE <<>>)

\* Presentation(PPTX_FILE_PATH)
Presentation(num_slides) == [s \in 1..num_slides |-> DeckShapes(s)]

\* The name of chart k of a chart-driven slide, in shape order.
ChartName(slide_num, k) ==
    IF slide_num = 7
    THEN (IF k = 1 THEN <<"C", "h", "a", "r", "t", " ", "2">> ELSE IF k = 2 THEN <<"C", "h", "a", "r", "t", " ", "9">>
          ELSE <<"C", "h", "a", "r", "t", " ", "1">> \o NatToText(k))
    ELSE <<"c", "h", "a", "r", "t", "_", "0", "4", "_", "0", "2", "_", "I", "n", "s", "t", "a", "n",
      "c", "e">> \o NatToText(k)

SampleData == <<<<<<"W", "e", "e", "k">>, <<"I", "n", "s", "t", "a", "l", "l", "s">>>>, <<<<"2", "0", "2", "5", "0", "6">>, <<"1", "2", "4", "5", "0">>>>>>

\* What function_1_extract_pptx and function_2_add_chart_data leave in
\* current_slide_data: the chart shapes and their datasets.  Dataset empty_idx (if
\* not 0) resolved to zero rows.
ExtractedData(slide_num, chart_count, empty_idx) ==
    LET n == IF slide_num \in ChartSlides THEN chart_count ELSE 0
    IN  [chart_identifiers |->
             [k \in 1..n |-> [name |-> ChartName(slide_num, k), title |-> None]],
         charts_excel_data |->
             [k \in 1..n |-> [identifier |-> ChartName(slide_num, k),
                              mapped_title |-> <<"W", "e", "e", "k", "l", "y", " ">> \o ChartName(slide_num, k),
                              data |-> IF k = empty_idx THEN <<>> ELSE SampleData]]]

\* insight_placeholders_map.get(str(slide_num)), summary_placeholders_map.get(...)
InsightPlaceholder(placeholders, slide_num) == IF placeholders THEN InsightsBox ELSE None

SummaryPlaceholder(placeholders, slide_num) == IF placeholders THEN SummaryBox ELSE None

\* chart_textbox_map of a chart-driven slide, in the order of the dict.
ChartTextboxMap(slide_num) ==
    IF slide_num = 7
    THEN <<[chart |-> <<"C", "h", "a", "r", "t", " ", "9">>, textbox |-> ContentPlaceholder14],
           [chart |-> <<"C", "h", "a", "r", "t", " ", "2">>, textbox |-> ContentPlaceholder15]>>
    ELSE <<[chart |-> <<"c", "h", "a", "r", "t", "_", "0", "4", "_", "0", "2", "_", "I", "n", "s", "t", "a", "n",
      "c", "e", "1">>, textbox |-> ContentPlaceholder14],
           [chart |-> <<"c", "h", "a", "r", "t", "_", "0", "4", "_", "0", "2", "_", "I", "n", "s", "t", "a", "n",
      "c", "e", "2">>, textbox |-> ContentPlaceholder15]>>

\* The smallest deck with a chart-driven slide, and the charts of the usual deck: as
\* many as the slide has chart text boxes.
ChartDeck == MinOf(ChartSlides)

UsualCharts == Len(ChartTextboxMap(ChartDeck))

\* env: client_ok, whether AzureOpenAI(...) and models.list() succeed; config, the
\* state of the config file; deck_readable and num_slides, the deck; placeholders,
\* whether the config maps a narrative and a summary shape for every slide;
\* chart_count, the charts on each chart-driven slide that resolve to a dataset.
\* The runs: every deck size with the usual configuration; the deck that ends at the
\* first chart-driven slide with every configuration; every failure of the setup.
Envs ==
    [client_ok : {TRUE}, config : {"valid"}, deck_readable : {TRUE},
     num_slides : 0..MaxSlides, placeholders : {TRUE}, chart_count : {UsualCharts}]
    \cup
    [client_ok : {TRUE}, config : {"valid"}, deck_readable : {TRUE},
     num_slides : {ChartDeck}, placeholders : BOOLEAN, chart_count : 0..MaxCharts]
    \cup
    [client_ok : BOOLEAN, config : ConfigStates, deck_readable : BOOLEAN,
     num_slides : {MaxSlides}, placeholders : {TRUE}, chart_count : {UsualCharts}]

\* The replies of the completion service: to a full-slide prompt, the narrative with
\* the marker lines the prompt asks for, or a narrative without them; to a chart
\* prompt, a narrative or a bare heading; to the synthesis prompt, a summary line or
\* a sentence without the marker.
FullReply(slide_num) ==
    <<"1", ".", " ", "I", "n", "s", "t", "a", "l", "l", "s", " ", "u", "p", " ", "1", "2", "%",
      "\n", "S", "u", "m", "m", "a", "r", "y", " ", "P", "h", "r", "a", "s", "e", ":", " ",
      "G", "o", "o", "d", " ", "w", "e", "e", "k">>
    \o (IF slide_num = 3 THEN <<"\n", "C", "o", "n", "t", "e", "x", "t", " ", "S", "n", "i", "p", "p", "e", "t", " ", "f",
      "o", "r", " ", "S", "l", "i", "d", "e", " ", "2", " ", "-", " ", "O", "r", "g", "a", "n",
      "i", "c", " ", "O", "S", ":", " ", "i", "O", "S">>
        ELSE IF slide_num = 4 THEN <<"\n", "C", "o", "n", "t", "e", "x", "t", " ", "S", "n", "i", "p", "p", "e", "t", " ", "f",
      "o", "r", " ", "S", "l", "i", "d", "e", " ", "2", " ", "-", " ", "O", "w", "n", "e", "d",
      " ", "C", "a", "m", "p", "a", "i", "g", "n", ":", " ", "S", "p", "r", "i", "n", "g">>
        ELSE IF slide_num = 5 THEN <<"\n", "C", "o", "n", "t", "e", "x", "t", " ", "S", "n", "i", "p", "p", "e", "t", " ", "f",
      "o", "r", " ", "S", "l", "i", "d", "e", " ", "2", " ", "-", " ", "P", "a", "i", "d", " ",
      "P", "a", "r", "t", "n", "e", "r", ":", " ", "G", "o", "o", "g", "l", "e">>
        ELSE <<>>)

BareReply == <<"1", ".", " ", "F", "l", "a", "t", " ", "w", "e", "e", "k">>

ChartReply == <<"1", ".", " ", "C", "h", "a", "r", "t", " ", "r", "o", "s", "e", " ", "3", "%">>

HeadingReply == <<"K", "e", "y", " ", "H", "i", "g", "h", "l", "i", "g", "h", "t", "s", ":">>

SynthReply == <<"S", "u", "m", "m", "a", "r", "y", " ", "P", "h", "r", "a", "s", "e", ":", " ", "C", "h",
      "a", "r", "t", "s", " ", "u", "p">>

\* What a request can come to: the expected reply, the other reply, or an error.
ServiceResults(expected, other) ==
    {[outcome |-> "ok", reply |-> r] : r \in {expected, other}}
    \cup {[outcome |-> e, reply |-> expected] : e \in ServiceErrors}

\* The texts the orchestrator records in place of an insight.
DataNotFound == <<"[", "D", "a", "t", "a", " ", "n", "o", "t", " ", "f", "o", "u", "n", "d", " ", "f", "o",
      "r", " ", "c", "h", "a", "r", "t", "]">>

PromptGenerationFailed == <<"[", "P", "r", "o", "m", "p", "t", " ", "g", "e", "n", "e", "r", "a", "t", "i", "o", "n",
      " ", "f", "a", "i", "l", "e", "d", "]">>

NoPromptGenerated == <<"[", "N", "o", " ", "p", "r", "o", "m", "p", "t", " ", "g", "e", "n", "e", "r", "a", "t",
      "e", "d", "]">>

NoSummaryGenerated == <<"[", "N", "o", " ", "s", "u", "m", "m", "a", "r", "y", " ", "g", "e", "n", "e", "r", "a",
      "t", "e", "d", "]">>

NoChartInsights == <<"[", "N", "o", " ", "c", "h", "a", "r", "t", " ", "i", "n", "s", "i", "g", "h", "t", "s",
      " ", "a", "v", "a", "i", "l", "a", "b", "l", "e", " ", "t", "o", " ", "s", "u", "m", "m",
      "a", "r", "i", "z", "e", "]">>

(***************************************************************************)
(* fetch_excel_data and function_2_add_chart_data.  A dataset is a         *)
(* sequence of rows, a row a sequence of cell values (texts, None for an   *)
(* empty cell).  What fetch_excel_data returns is None or a dataset.       *)
(***************************************************************************)
NoRows == [is_none |-> TRUE, rows |-> <<>>]

SomeRows(data_rows) == [is_none |-> FALSE, rows |-> data_rows]

\* The spreadsheet files on disk (os.path.exists) and a path with no file.
DefaultFile == <<"d", "a", "t", "a", ".", "x", "l", "s", "x">>

OverrideFile == <<"e", "x", "t", "r", "a", ".", "x", "l", "s", "x">>

MissingFile == <<"g", "o", "n", "e", ".", "x", "l", "s", "x">>

ExistingFiles == {DefaultFile, OverrideFile}

DataSheet == <<"D", "a", "t", "a">>

OtherSheet == <<"O", "t", "h", "e", "r">>

\* workbook[sheet_name] raises KeyError for any other name.
SheetNames(file_path) == {DataSheet, OtherSheet}

\* workbook.defined_names: name -> attr_text.
DefinedNames(file_path) ==
    [name \in {<<"T", "o", "t", "a", "l", "s">>, <<"L", "o", "c", "a", "l">>, <<"F", "o", "r", "e", "i", "g", "n">>} |->
        CASE name = <<"T", "o", "t", "a", "l", "s">> -> <<"D", "a", "t", "a", "!", "A", "1", ":", "B", "2">>
          [] name = <<"L", "o", "c", "a", "l">> -> <<"A", "1", ":", "B", "2">>
          [] OTHER -> <<"O", "t", "h", "e", "r", "!", "A", "1", ":", "B", "2">>]

\* The figure a sheet of a file holds, different for every file and sheet.
Figure(file_path, sheet_name) ==
    IF sheet_name = OtherSheet THEN <<"3", "0">>
    ELSE IF file_path = OverrideFile THEN <<"2", "0">>
    ELSE <<"1", "0">>

EmptyRange == <<"H", "9", ":", "H", "8">>

\* sheet[range_str]: a tuple of rows of cell values for a range, one cell for a
\* single coordinate, an empty tuple for a range over no cells; it raises for
\* anything that is not a range.
SheetCells(file_path, sheet_name, range_str) ==
    CASE range_str = <<"A", "1", ":", "B", "2">> ->
             [kind |-> "rows",
              rows |-> <<<<<<"W", "e", "e", "k">>, <<"I", "n", "s", "t", "a", "l", "l", "s">>>>, <<<<"W", "1">>, Figure(file_path, sheet_name)>>>>]
      [] range_str = <<"D", "1", ":", "D", "3">> ->
             [kind |-> "rows",
              rows |-> <<<<<<"C", "o", "s", "t">>>>, <<None>>, <<Figure(file_path, sheet_name)>>>>]
      [] range_str = <<"C", "1">> -> [kind |-> "cell", value |-> Figure(file_path, sheet_name)]
      [] range_str = EmptyRange -> [kind |-> "rows", rows |-> <<>>]
      [] OTHER -> [kind |-> "raises"]

\* What becomes of target_cells: a Cell is one row of one value, a tuple of rows
\* is read row by row (none if the tuple is empty); an exception of the read is
\* caught and None is returned.
DataRows(target_cells) ==
    IF target_cells.kind = "raises" THEN NoRows
    ELSE IF target_cells.kind = "cell" THEN SomeRows(<<<<target_cells.value>>>>)
    ELSE SomeRows(target_cells.rows)

\* What a read of the cells of a workbook that has been closed can do.
ClosedReads == {"raises", "reads"}

\* The named range with destination dest.  bang is the position of the first "!"
\* in dest (0: none).  If the sheet before "!" is not sheet_name the workbook is
\* closed, and the code goes on to read sheet[range_str] from it all the same.
ReadNamedAt(file_path, sheet_name, dest, bang, closed_read) ==
    IF bang # 0 /\ Upto(dest, bang - 1) # sheet_name /\ closed_read = "raises"
    THEN NoRows
    ELSE DataRows(SheetCells(file_path, sheet_name,
                             IF bang # 0 THEN From(dest, bang + 1) ELSE dest))

ReadNamed(file_path, sheet_name, dest, closed_read) ==
    ReadNamedAt(file_path, sheet_name, dest, Least({i \in 1..Len(dest) : dest[i] = "!"}),
                closed_read)

\* fetch_excel_data(file_path, sheet_name, excel_range, range_name)
fetch_excel_data(file_path, sheet_name, excel_range, range_name, closed_read) ==
    IF ~(Truthy(excel_range) \/ Truthy(range_name)) THEN NoRows
    ELSE IF ~Truthy(sheet_name) THEN NoRows
    ELSE IF file_path \notin ExistingFiles THEN NoRows
    ELSE IF sheet_name \notin SheetNames(file_path) THEN NoRows
    ELSE IF Truthy(range_name)
    THEN IF range_name \in DOMAIN DefinedNames(file_path)
         THEN ReadNamed(file_path, sheet_name, DefinedNames(file_path)[range_name],
                        closed_read)
         ELSE NoRows
    ELSE DataRows(SheetCells(file_path, sheet_name, excel_range))

\* The last definition with the shape name, where the code takes the first.
LastMatch(definitions, name) ==
    Greatest({k \in 1..Len(definitions) : definitions[k].shape_name = name})

\* The position of the first definition whose shape_name is name, 0 if none.
FirstMatch(definitions, name) ==
    Least({k \in 1..Len(definitions) : definitions[k].shape_name = name})

\* final_excel_file
FinalExcelFile(specific_excel_file, default_excel_file_path) ==
    IF Truthy(specific_excel_file) THEN specific_excel_file ELSE default_excel_file_path

\* datasets: what the ranges of excel_ranges fetch, without those that fetch None.
RECURSIVE FetchRanges(_, _, _, _)
FetchRanges(file_path, sheet_name, excel_ranges, closed_read) ==
    IF excel_ranges = <<>> THEN <<>>
    ELSE LET d == fetch_excel_data(file_path, sheet_name, excel_ranges[1], None, closed_read)
         IN  (IF d.is_none THEN <<>> ELSE <<d.rows>>)
             \o FetchRanges(file_path, sheet_name, Tail(excel_ranges), closed_read)

\* The rows of the shortest dataset, where the code takes the longest.
MinRows(datasets) == Least({Len(datasets[k]) : k \in 1..Len(datasets)})

\* max_rows
MaxRows(datasets) == Greatest({Len(datasets[k]) : k \in 1..Len(datasets)})

\* col_counts[ds_idx]
ColCount(d) == IF d # <<>> /\ Len(d[1]) > 0 THEN Len(d[1]) ELSE 0

\* ["" if v is None else v for v in row]
Blanked(row) == [j \in 1..Len(row) |-> IF row[j] = None THEN <<>> ELSE row[j]]

\* [""] * (col_count if col_count > 0 else 1)
Padding(col_count) == [j \in 1..(IF col_count > 0 THEN col_count ELSE 1) |-> <<>>]

RECURSIVE Flatten(_)
Flatten(rows) == IF rows = <<>> THEN <<>> ELSE rows[1] \o Flatten(Tail(rows))

\* combined_row for row_idx
CombinedRow(datasets, row_idx) ==
    Flatten([k \in 1..Len(datasets) |->
                IF row_idx <= Len(datasets[k]) THEN Blanked(datasets[k][row_idx])
                ELSE Padding(ColCount(datasets[k]))])

\* combined
Combined(datasets) == [row_idx \in 1..MaxRows(datasets) |-> CombinedRow(datasets, row_idx)]

CombineFetched(datasets) == IF Len(datasets) > 0 THEN SomeRows(Combined(datasets)) ELSE NoRows

\* excel_data of a matched chart: the ranges of a list combined, or the single
\* range or named range.  excel_ranges is <<>> where the mapping has no list.
ChartData(final_excel_file, excel_source_info, closed_read) ==
    IF excel_source_info.excel_ranges # <<>>
    THEN CombineFetched(FetchRanges(final_excel_file, excel_source_info.sheet,
                                    excel_source_info.excel_ranges, closed_read))
    ELSE fetch_excel_data(final_excel_file, excel_source_info.sheet,
                          excel_source_info.excel_range, excel_source_info.range_name,
                          closed_read)

\* chart_output
ChartOutput(found_chart, matched_definition, excel_data) ==
    [identifier |-> found_chart.name,
     mapped_title |-> DictGet(matched_definition, "title",
                             DictGet(found_chart, "title", NotAvailable)),
     mapped_type |-> DictGet(matched_definition, "chart_type", NotAvailable),
     data |-> excel_data]

\* The fetch for a chart with its matched definition: what it appends.
FetchMatched(found_chart, matched_definition, excel_data) ==
    IF excel_data.is_none THEN <<>>
    ELSE <<ChartOutput(found_chart, matched_definition, excel_data.rows)>>

MatchedChart(found_chart, matched_definition, default_excel_file_path, closed_read) ==
    LET excel_source_info == matched_definition.excel_source
        final_excel_file == FinalExcelFile(excel_source_info.excel_file_path,
                                           default_excel_file_path)
    IN  IF ~Truthy(final_excel_file) THEN <<>>
        ELSE IF \/ ~Truthy(excel_source_info.sheet)
                \/ ~(\/ Truthy(excel_source_info.excel_range)
                     \/ excel_source_info.excel_ranges # <<>>
                     \/ Truthy(excel_source_info.range_name))
        THEN <<>>
        ELSE FetchMatched(found_chart, matched_definition,
                          ChartData(final_excel_file, excel_source_info, closed_read))

\* One iteration of the loop over charts_found_on_slide; k is the position of the
\* matched definition.
FoundChartAt(found_chart, mapped_chart_definitions, k, default_excel_file_path, closed_read) ==
    IF ~Truthy(found_chart.name) \/ k = 0 THEN <<>>
    ELSE MatchedChart(found_chart, mapped_chart_definitions[k], default_excel_file_path,
                      closed_read)

RECURSIVE FoundCharts(_, _, _, _)
FoundCharts(charts_found_on_slide, mapped_chart_definitions, default_excel_file_path, closed_read) ==
    IF charts_found_on_slide = <<>> THEN <<>>
    ELSE FoundChartAt(charts_found_on_slide[1], mapped_chart_definitions,
                      FirstMatch(mapped_chart_definitions, charts_found_on_slide[1].name),
                      default_excel_file_path, closed_read)
         \o FoundCharts(Tail(charts_found_on_slide), mapped_chart_definitions,
                        default_excel_file_path, closed_read)

\* function_2_add_chart_data(slide_number, mapping_data, slide_data): the list
\* stored as slide_data["charts_excel_data"].
function_2_add_chart_data(slide_number, mapping_data, slide_data, closed_read) ==
    IF slide_data.chart_identifiers = <<>> THEN <<>>
    ELSE IF ~Truthy(mapping_data.excel_path) THEN <<>>
    ELSE IF NatToText(slide_number) \notin DOMAIN mapping_data.slides THEN <<>>
    ELSE IF mapping_data.slides[NatToText(slide_number)].charts = <<>> THEN <<>>
    ELSE FoundCharts(slide_data.chart_identifiers,
                     mapping_data.slides[NatToText(slide_number)].charts,
                     mapping_data.excel_path, closed_read)

(***************************************************************************)
(* function_1_extract_pptx.  A shape is a record of what the library tells  *)
(* of it; a table is a sequence of rows of cells, a cell a record with its  *)
(* text and whether reading its text frame raises.                          *)
(***************************************************************************)
\* The value of the function and current_slide_data for a slide out of range:
\* None is returned and the dictionary of the caller is left as it was.
NoSlideData ==
    [returned |-> FALSE, slide_number_processed |-> 0, title |-> None, text_content |-> <<>>,
     tables_data |-> <<>>, chart_identifiers |-> <<>>]

\* slide.shapes.title.text.strip(): None where the slide has no title shape or
\* reading it raises.
ExtractTitle(slide) ==
    IF slide.title.kind = "text" THEN strip(slide.title.text) ELSE None

\* is_title
IsTitle(title, shape) == Truthy(title) /\ shape.has_text_frame /\ strip(shape.text) = title

\* Boilerplate from the edge of the bottom 15% on, where the code takes what lies
\* beyond it.
BoilerplateFromEdge(shape, slide_height) ==
    20 * shape.top >= 17 * slide_height \/ 20 * shape.height < 3 * slide_height

\* is_likely_boilerplate: shape.top > slide_height * 0.85 or shape.height <
\* slide_height * 0.15, on whole numbers of EMU.
IsLikelyBoilerplate(shape, slide_height) ==
    20 * shape.top > 17 * slide_height \/ 20 * shape.height < 3 * slide_height

\* What a shape appends to text_content.
ExtractText(title, shape, slide_height) ==
    IF /\ shape.has_text_frame
       /\ strip(shape.text) # <<>>
       /\ ~IsTitle(title, shape)
       /\ ~IsLikelyBoilerplate(shape, slide_height)
    THEN <<strip(shape.text)>>
    ELSE <<>>

\* row_data
RowData(row) == [j \in 1..Len(row) |-> strip(row[j].text)]

\* Whether reading the cells of the table raises before its last row is read.
TableRaises(table) == \E r \in 1..Len(table) : \E j \in 1..Len(table[r]) : table[r][j].raises

\* What a shape appends to tables_data: its table_data once all rows are read,
\* nothing where a cell raises (the append is inside the try block).
ExtractTable(shape) ==
    IF ~shape.has_table \/ TableRaises(shape.table) THEN <<>>
    ELSE <<[r \in 1..Len(shape.table) |-> RowData(shape.table[r])]>>

\* chart_title
ChartTitle(shape) == IF shape.chart_title.kind = "text" THEN strip(shape.chart_title.text) ELSE None

\* What a shape appends to chart_identifiers.
ExtractChart(shape) ==
    IF shape.has_chart
    THEN <<[name |-> shape.name, id |-> shape.shape_id, title |-> ChartTitle(shape)]>>
    ELSE <<>>

\* The loop over slide.shapes, from shape k on.
RECURSIVE ExtractShapes(_, _, _, _, _)
ExtractShapes(shapes, k, title, slide_height, slide_data) ==
    IF k > Len(shapes) THEN slide_data
    ELSE ExtractShapes(shapes, k + 1, title, slide_height,
             [slide_data EXCEPT
                 !.text_content = @ \o ExtractText(title, shapes[k], slide_height),
                 !.tables_data = @ \o ExtractTable(shapes[k]),
                 !.chart_identifiers = @ \o ExtractChart(shapes[k])])

ExtractSlideAt(slide_number_1_based, slide, title, slide_height) ==
    ExtractShapes(slide.shapes, 1, title, slide_height,
                  [returned |-> TRUE, slide_number_processed |-> slide_number_1_based,
                   title |-> title, text_content |-> <<>>, tables_data |-> <<>>,
                   chart_identifiers |-> <<>>])

\* function_1_extract_pptx(slide_number_1_based, prs, current_slide_data)
function_1_extract_pptx(slide_number_1_based, prs) ==
    IF slide_number_1_based < 1 \/ slide_number_1_based > Len(prs.slides) THEN NoSlideData
    ELSE ExtractSlideAt(slide_number_1_based, prs.slides[slide_number_1_based],
                        ExtractTitle(prs.slides[slide_number_1_based]), prs.slide_height)

(***************************************************************************)
(* generate_and_paste_insights: the state of one run.                      *)
(***************************************************************************)
VARIABLES
    env,                       \* the inputs of the run (see Envs)
    pc,                        \* the position of the run in generate_and_paste_insights
    abort_reason,              \* which FATAL ERROR ended the run, "" if none
    presentation,              \* the deck in memory: slide number -> shapes
    slides_to_process,         \* the processing order
    idx,                       \* the position of the main loop in slides_to_process
    visited,                   \* the slide numbers the loop has taken, in order
    all_extracted_data,        \* slide number -> extracted content
    slide_2_context_snippets,  \* context key -> snippet
    all_insights_to_paste,     \* slide number -> entries [shape, text, type], in order
    all_prompts_generated,     \* prompt key -> prompt
    llm_calls,                 \* the requests sent to the completion service, in order
    faults,                    \* units of work that departed from the expected outcome
    failed_pastes,             \* what paste_all_text_to_ppt could not place
    paste_calls,               \* invocations of paste_all_text_to_ppt
    save_attempts,             \* invocations of presentation.save
    saved,                     \* the last presentation.save wrote the output file
    parse_args,                \* the arguments of a call of parse_llm_response
    parse_done,                \* whether that call has returned
    parse_result,              \* what it returned
    chart_args,                \* the arguments of a call of function_2_add_chart_data
    chart_done,                \* whether that call has returned
    chart_result,              \* slide_data["charts_excel_data"] after it
    extract_args,              \* the arguments of a call of function_1_extract_pptx
    extract_done,              \* whether that call has returned
    extract_result             \* what it returned, and current_slide_data after it

vars ==
    <<env, pc, abort_reason, presentation, slides_to_process, idx, visited,
      all_extracted_data, slide_2_context_snippets, all_insights_to_paste,
      all_prompts_generated, llm_calls, faults, failed_pastes, paste_calls,
      save_attempts, saved, parse_args, parse_done, parse_result, chart_args, chart_done,
      chart_result, extract_args, extract_done, extract_result>>

run_vars ==
    <<env, pc, abort_reason, presentation, slides_to_process, idx, visited,
      all_extracted_data, slide_2_context_snippets, all_insights_to_paste,
      all_prompts_generated, llm_calls, faults, failed_pastes, paste_calls,
      save_attempts, saved>>

parse_vars == <<parse_args, parse_done, parse_result>>

chart_vars == <<chart_args, chart_done, chart_result>>

extract_vars == <<extract_args, extract_done, extract_result>>

\* sorted(S) as a sequence.
SortedSeq(S) ==
    [k \in 1..Cardinality(S) |-> CHOOSE x \in S : Cardinality({y \in S : y < x}) = k - 1]

\* Every slide in ascending order, without the context producers first.
NaturalOrder(num_slides_in_ppt) == SortedSeq(1..num_slides_in_ppt)

\* An order that takes slide 2 after the producers and once more among the others.
RepeatingOrder(num_slides_in_ppt) ==
    SortedSeq({s \in 1..num_slides_in_ppt : s \in {3, 4, 5}})
    \o SortedSeq({s \in 1..num_slides_in_ppt : s = 2})
    \o SortedSeq({s \in 1..num_slides_in_ppt : s \notin {3, 4, 5}})

\* slides_to_process
ProcessingOrder(num_slides_in_ppt) ==
    LET all_slide_nums == 1..num_slides_in_ppt
    IN  SortedSeq({s \in all_slide_nums : s \in {3, 4, 5}})
        \o SortedSeq({s \in all_slide_nums : s = 2})
        \o SortedSeq({s \in all_slide_nums : s \notin {2, 3, 4, 5}})

\* The setup steps that end the run with a FATAL ERROR.
ClientRaises(e) == ~e.client_ok

ConfigRaises(e) == e.config # "valid"

\* A loader that also rejects a deck without slides.
PresentationRejectsEmpty(e) == ~e.deck_readable \/ e.num_slides = 0

PresentationRaises(e) == ~e.deck_readable

RunIdle ==
    /\ abort_reason = ""
    /\ presentation = <<>>
    /\ slides_to_process = <<>>
    /\ idx = 1
    /\ visited = <<>>
    /\ all_extracted_data = EmptyDict
    /\ slide_2_context_snippets = EmptyDict
    /\ all_insights_to_paste = EmptyDict
    /\ all_prompts_generated = EmptyDict
    /\ llm_calls = <<>>
    /\ faults = 0
    /\ failed_pastes = <<>>
    /\ paste_calls = 0
    /\ save_attempts = 0
    /\ saved = FALSE

ParseIdle ==
    /\ parse_args = [slide_num |-> 1, response_text |-> None, is_chart_specific |-> FALSE]
    /\ parse_done = FALSE
    /\ parse_result = [main_insight |-> None]

ChartIdle ==
    /\ chart_args = [slide_number |-> ChartDeck, closed_read |-> "raises"]
    /\ chart_done = FALSE
    /\ chart_result = <<>>

ExtractIdle ==
    /\ extract_args = [slide_number_1_based |-> 0]
    /\ extract_done = FALSE
    /\ extract_result = NoSlideData

Init ==
    /\ env \in Envs
    /\ pc = "init_client"
    /\ RunIdle
    /\ ParseIdle
    /\ ChartIdle
    /\ ExtractIdle

\* llm_client = AzureOpenAI(...); llm_client.models.list()
InitClient ==
    /\ pc = "init_client"
    /\ IF ClientRaises(env)
       THEN pc' = "aborted" /\ abort_reason' = "client"
       ELSE pc' = "load_config" /\ abort_reason' = abort_reason
    /\ UNCHANGED <<env, presentation, slides_to_process, idx, visited, all_extracted_data,
                   slide_2_context_snippets, all_insights_to_paste, all_prompts_generated,
                   llm_calls, faults, failed_pastes, paste_calls, save_attempts, saved>>
    /\ UNCHANGED parse_vars
    /\ UNCHANGED chart_vars
    /\ UNCHANGED extract_vars

\* 1. Load Unified Config
LoadConfig ==
    /\ pc = "load_config"
    /\ IF ConfigRaises(env)
       THEN pc' = "aborted" /\ abort_reason' = "config"
       ELSE pc' = "load_presentation" /\ abort_reason' = abort_reason
    /\ UNCHANGED <<env, presentation, slides_to_process, idx, visited, all_extracted_data,
                   slide_2_context_snippets, all_insights_to_paste, all_prompts_generated,
                   llm_calls, faults, failed_pastes, paste_calls, save_attempts, saved>>
    /\ UNCHANGED parse_vars
    /\ UNCHANGED chart_vars
    /\ UNCHANGED extract_vars

\* 2. Load Presentation, 3. Initialize Data Structures, 4. Define Processing Order
LoadPresentation ==
    /\ pc = "load_presentation"
    /\ IF PresentationRaises(env)
       THEN /\ pc' = "aborted"
            /\ abort_reason' = "document"
            /\ UNCHANGED <<presentation, slides_to_process, slide_2_context_snippets>>
       ELSE /\ pc' = "loop"
            /\ abort_reason' = abort_reason
            /\ presentation' = Presentation(env.num_slides)
            /\ slide_2_context_snippets' =
                   [k \in {"organic_os", "owned_campaign", "paid_partner"} |-> None]
            /\ slides_to_process' = ProcessingOrder(env.num_slides)
    /\ UNCHANGED <<env, idx, visited, all_extracted_data, all_insights_to_paste,
                   all_prompts_generated, llm_calls, faults, failed_pastes, paste_calls,
                   save_attempts, saved>>
    /\ UNCHANGED parse_vars
    /\ UNCHANGED chart_vars
    /\ UNCHANGED extract_vars

InLoop == pc = "loop" /\ idx <= Len(slides_to_process)

\* An iteration of the main loop that ends at a continue before any insight is
\* generated: the slide number is out of range, or the extraction raises.
SkipSlide ==
    /\ InLoop
    /\ LET slide_num == slides_to_process[idx]
       IN  IF slide_num < 1 \/ slide_num > env.num_slides
           THEN faults' = faults
           ELSE /\ slide_num \notin DOMAIN all_extracted_data
                /\ faults < MaxFaults
                /\ faults' = faults + 1
    /\ idx' = idx + 1
    /\ visited' = Append(visited, slides_to_process[idx])
    /\ UNCHANGED <<env, pc, abort_reason, presentation, slides_to_process,
                   all_extracted_data, slide_2_context_snippets, all_insights_to_paste,
                   all_prompts_generated, llm_calls, failed_pastes, paste_calls,
                   save_attempts, saved>>
    /\ UNCHANGED parse_vars
    /\ UNCHANGED chart_vars
    /\ UNCHANGED extract_vars

\* Every producer slide writing the same key.
SharedContextKey(slide_num) == "organic_os"

\* The context key a producer slide writes.
ContextKey(slide_num) ==
    IF slide_num = 3 THEN "organic_os"
    ELSE IF slide_num = 4 THEN "owned_campaign"
    ELSE "paid_partner"

FullPromptKey(slide_num) == <<"s", "l", "i", "d", "e", "_">> \o NatToText(slide_num) \o <<"_", "f", "u", "l", "l">>

ChartPromptKey(slide_num, name) ==
    <<"s", "l", "i", "d", "e", "_">> \o NatToText(slide_num) \o <<"_", "c", "h", "a", "r", "t", "_">> \o name

SummaryPromptKey(slide_num) == <<"s", "l", "i", "d", "e", "_">> \o NatToText(slide_num) \o <<"_", "s", "u", "m", "m", "a", "r", "y", "_", "f", "r", "o", "m", "_", "c", "h", "a", "r",
      "t", "s">>

\* 1 if a request departs from the expected outcome, 0 if not.
Departs(result, expected) ==
    IF result.outcome # "ok" \/ result.reply # expected THEN 1 ELSE 0

\* d with the entry [shape, text, type] set, if a shape is configured.
WithEntry(d, shape, text, type) ==
    IF Truthy(shape) THEN EntrySet(d, [shape |-> shape, text |-> text, type |-> type]) ELSE d

\* The entries of a slide handled as a whole: the narrative, then the summary.
FullSlideEntries(kh_shape, sp_shape, kh_text, sp_text) ==
    WithEntry(WithEntry(<<>>, kh_shape, kh_text, "key_highlight"),
              sp_shape, sp_text, "summary_phrase")

\* What the standard handling of slide_num stores, given its prompt and, if the
\* prompt is not None, the parsed reply.
StoreFullSlide(slide_num, prompt, parsed_result, outcome) ==
    /\ all_prompts_generated' =
           DictSet(all_prompts_generated, FullPromptKey(slide_num), prompt)
    /\ all_insights_to_paste' =
           DictSet(all_insights_to_paste, slide_num,
                   IF Truthy(prompt)
                   THEN FullSlideEntries(InsightPlaceholder(env.placeholders, slide_num),
                                         SummaryPlaceholder(env.placeholders, slide_num),
                                         parsed_result.main_insight,
                                         parsed_result.summary_phrase)
                   ELSE FullSlideEntries(InsightPlaceholder(env.placeholders, slide_num),
                                         SummaryPlaceholder(env.placeholders, slide_num),
                                         NoPromptGenerated, NoPromptGenerated))
    /\ llm_calls' =
           IF Truthy(prompt)
           THEN Append(llm_calls,
                       [key |-> FullPromptKey(slide_num), slide |-> slide_num,
                        shape |-> InsightPlaceholder(env.placeholders, slide_num),
                        outcome |-> outcome])
           ELSE llm_calls
    /\ slide_2_context_snippets' =
           IF Truthy(prompt) /\ slide_num \in ContextProducers
              /\ Truthy(parsed_result.context_snippet)
           THEN DictSet(slide_2_context_snippets, ContextKey(slide_num),
                        parsed_result.context_snippet)
           ELSE slide_2_context_snippets

\* The standard handling of slide_num from its prompt on.
HandleFullSlide(slide_num, prompt, result) ==
    /\ ~Truthy(prompt) => Departs(result, FullReply(slide_num)) = 0
    /\ StoreFullSlide(slide_num, prompt,
                      parse_llm_response(slide_num,
                                         function_4_call_llm(prompt, env.client_ok,
                                                             result.outcome, result.reply),
                                         FALSE),
                      result.outcome)

\* An iteration of the main loop for a slide handled as a whole (Standard Handling).
ProcessFullSlide ==
    /\ InLoop
    /\ slides_to_process[idx] \in 1..env.num_slides
    /\ slides_to_process[idx] \notin ChartSlides
    /\ \E result \in ServiceResults(FullReply(slides_to_process[idx]), BareReply) :
         /\ faults + Departs(result, FullReply(slides_to_process[idx])) <= MaxFaults
         /\ faults' = faults + Departs(result, FullReply(slides_to_process[idx]))
         /\ HandleFullSlide(slides_to_process[idx],
                            build_prompt_for_slide(
                                slides_to_process[idx],
                                ExtractedData(slides_to_process[idx], env.chart_count, 0),
                                IF slides_to_process[idx] = ContextConsumer
                                THEN slide_2_context_snippets ELSE EmptyDict,
                                NoFocus),
                            result)
    /\ all_extracted_data' =
           DictSet(all_extracted_data, slides_to_process[idx],
                   ExtractedData(slides_to_process[idx], env.chart_count, 0))
    /\ idx' = idx + 1
    /\ visited' = Append(visited, slides_to_process[idx])
    /\ UNCHANGED <<env, pc, abort_reason, presentation, slides_to_process, failed_pastes,
                   paste_calls, save_attempts, saved>>
    /\ UNCHANGED parse_vars
    /\ UNCHANGED chart_vars
    /\ UNCHANGED extract_vars

ChartEntry(textbox_name, text) ==
    [shape |-> textbox_name, text |-> text, type |-> "chart_specific"]

\* chart_data_to_send for a chart shape and its dataset.
ChartDataToSend(chart_f1_info, chart_info) ==
    [focus |-> TRUE,
     name |-> IF Truthy(chart_f1_info.name) THEN chart_f1_info.name
              ELSE chart_info.identifier,
     title |-> IF Truthy(chart_f1_info.title) THEN chart_f1_info.title
               ELSE chart_info.mapped_title,
     data |-> chart_info.data]

\* One pair of chart_textbox_map from the built prompt on.  st is the state of the
\* iteration: the entries of the slide, the prompts stored, processed_chart_ids and
\* the requests sent.
ChartPairPrompt(st, slide_num, pair, client, outcome, reply, prompt_key, prompt) ==
    IF ~Truthy(prompt)
    THEN [st EXCEPT !.insights = EntrySet(@, ChartEntry(pair.textbox, PromptGenerationFailed)),
                    !.prompts = DictSet(@, prompt_key, prompt)]
    ELSE [st EXCEPT !.insights =
                        EntrySet(@, ChartEntry(pair.textbox,
                                     parse_llm_response(
                                         slide_num,
                                         function_4_call_llm(prompt, client, outcome, reply),
                                         TRUE).main_insight)),
                    !.prompts = DictSet(@, prompt_key, prompt),
                    !.calls = Append(@, [key |-> prompt_key, slide |-> slide_num,
                                         shape |-> pair.textbox, outcome |-> outcome])]

\* The same from the dataset found on.
ChartPairSend(st, slide_num, pair, client, outcome, reply, chart_data_to_send) ==
    IF chart_data_to_send.data = <<>>
    THEN [st EXCEPT !.insights = EntrySet(@, ChartEntry(pair.textbox, DataNotFound))]
    ELSE ChartPairPrompt(st, slide_num, pair, client, outcome, reply,
                         ChartPromptKey(slide_num, chart_data_to_send.name),
                         build_prompt_for_slide(slide_num, None, EmptyDict,
                                                chart_data_to_send))

\* The same from the search of a dataset on: match_condition = True, so the pair
\* takes dataset i, the first one not yet processed (0: there is none).
ChartPairMatch(st, slide_num, slide_data, pair, client, outcome, reply, i) ==
    IF i = 0
    THEN [st EXCEPT !.insights = EntrySet(@, ChartEntry(pair.textbox, DataNotFound))]
    ELSE ChartPairSend([st EXCEPT !.processed_chart_ids = @ \cup {i}],
                       slide_num, pair, client, outcome, reply,
                       ChartDataToSend(IF i <= Len(slide_data.chart_identifiers)
                                       THEN slide_data.chart_identifiers[i]
                                       ELSE [name |-> None, title |-> None],
                                       slide_data.charts_excel_data[i]))

\* One pair (chart_id_key, textbox_name) of chart_textbox_map.
ChartPairStep(st, slide_num, slide_data, pair, client, outcome, reply) ==
    ChartPairMatch(st, slide_num, slide_data, pair, client, outcome, reply,
                   Least({i \in 1..Len(slide_data.charts_excel_data) :
                             i \notin st.processed_chart_ids}))

\* for chart_id_key, textbox_name in chart_textbox_map.items(), from pair k on.
RECURSIVE ChartPairs(_, _, _, _, _, _)
ChartPairs(st, slide_num, slide_data, k, client, results) ==
    IF k > Len(ChartTextboxMap(slide_num)) THEN st
    ELSE ChartPairs(ChartPairStep(st, slide_num, slide_data, ChartTextboxMap(slide_num)[k],
                                  client, results[k].outcome, results[k].reply),
                    slide_num, slide_data, k + 1, client, results)

FirstOf(lines) == IF lines = <<>> THEN <<>> ELSE lines[1]

\* next((ln.strip() for ln in t.splitlines() if ln.strip()), '')
FirstLine(t) == FirstOf(StrippedLines(SplitAt(t, 1, {"\n", "\r"})))

\* The first line of every entry, empty for the entries that are not chart entries.
FirstLines(entries) ==
    [k \in 1..Len(entries) |->
        IF entries[k].type = "chart_specific" /\ Truthy(entries[k].text)
        THEN FirstLine(entries[k].text) ELSE <<>>]

Cleaned(lines) == [k \in 1..Len(lines) |-> StripBullet(lines[k])]

\* chart_texts: the cleaned first lines of the chart entries of the slide.
ChartTexts(entries) == Cleaned(SelectSeq(FirstLines(entries), LAMBDA ln : ln # <<>>))

\* Both chart-driven slides.
BothChartSlides == {7, 10}

\* The slides for which a combined summary of the chart insights is created.
SummarySlides == {7}

SummaryPrompt(chart_texts) ==
    <<"F", "o", "r", "m", "a", "t", " ", "t", "h", "e", " ", "o", "u", "t", "p", "u", "t", " ",
      "e", "x", "a", "c", "t", "l", "y", " ", "a", "s", ":", " ", "S", "u", "m", "m", "a", "r",
      "y", " ", "P", "h", "r", "a", "s", "e", ":", " ", "[", "C", "o", "n", "c", "i", "s", "e",
      " ", "p", "h", "r", "a", "s", "e", "]">>
        \o <<"\n", "\n", "C", "h", "a", "r", "t", " ", "I", "n", "s", "i", "g", "h", "t", "s", ":", "\n">> \o Join(chart_texts, <<";", " ">>)

\* value or default
OrDefault(value, default) == IF Truthy(value) THEN value ELSE default

\* The combined summary from chart_texts on.
SummaryFromCharts(st, slide_num, sp_shape, client, outcome, reply, chart_texts) ==
    IF chart_texts = <<>>
    THEN [st EXCEPT !.insights =
                        EntrySet(@, [shape |-> sp_shape, text |-> NoChartInsights,
                                     type |-> "summary_phrase"])]
    ELSE [st EXCEPT !.insights =
                        EntrySet(@, [shape |-> sp_shape,
                                     text |-> OrDefault(
                                         parse_llm_response(
                                             slide_num,
                                             function_4_call_llm(SummaryPrompt(chart_texts),
                                                                 client, outcome, reply),
                                             FALSE).summary_phrase,
                                         NoSummaryGenerated),
                                     type |-> "summary_phrase"]),
                    !.prompts = DictSet(@, SummaryPromptKey(slide_num),
                                        SummaryPrompt(chart_texts)),
                    !.calls = Append(@, [key |-> SummaryPromptKey(slide_num),
                                         slide |-> slide_num, shape |-> sp_shape,
                                         outcome |-> outcome])]

\* The combined summary of the chart insights of a slide.
ChartSummaryStep(st, slide_num, placeholders, client, outcome, reply) ==
    IF slide_num \notin SummarySlides \/ ~Truthy(SummaryPlaceholder(placeholders, slide_num))
    THEN st
    ELSE SummaryFromCharts(st, slide_num, SummaryPlaceholder(placeholders, slide_num),
                           client, outcome, reply, ChartTexts(st.insights))

\* What the special handling stores: st is the state of the iteration at its end,
\* chart_calls the requests sent for the charts.
StoreChartSlide(slide_num, slide_data, st, chart_calls, summary_departs) ==
    /\ Len(st.calls) = chart_calls => summary_departs = 0
    /\ all_extracted_data' = DictSet(all_extracted_data, slide_num, slide_data)
    /\ all_prompts_generated' = st.prompts
    /\ all_insights_to_paste' = DictSet(all_insights_to_paste, slide_num, st.insights)
    /\ llm_calls' = llm_calls \o st.calls

\* The special handling from the end of the loop over chart_textbox_map on.
SummarizeChartSlide(slide_num, slide_data, st, results, summary_result) ==
    /\ \A k \in 1..Len(ChartTextboxMap(slide_num)) :
           (\A c \in 1..Len(st.calls) :
                st.calls[c].shape # ChartTextboxMap(slide_num)[k].textbox)
               => Departs(results[k], ChartReply) = 0
    /\ StoreChartSlide(slide_num, slide_data,
                       ChartSummaryStep(st, slide_num, env.placeholders, env.client_ok,
                                        summary_result.outcome, summary_result.reply),
                       Len(st.calls), Departs(summary_result, SynthReply))

HandleChartSlide(slide_num, slide_data, results, summary_result) ==
    SummarizeChartSlide(slide_num, slide_data,
                        ChartPairs([insights |-> <<>>, prompts |-> all_prompts_generated,
                                    processed_chart_ids |-> {}, calls |-> <<>>],
                                   slide_num, slide_data, 1, env.client_ok, results),
                        results, summary_result)

\* An iteration of the main loop for a slide handled chart by chart (Special
\* Handling for Slides 7 and 10).
ProcessChartSlide ==
    /\ InLoop
    /\ slides_to_process[idx] \in 1..env.num_slides
    /\ slides_to_process[idx] \in ChartSlides
    /\ \E empty_idx \in 0..env.chart_count,
          results \in [1..2 -> ServiceResults(ChartReply, HeadingReply)],
          summary_result \in ServiceResults(SynthReply, BareReply) :
         /\ faults + (IF empty_idx # 0 THEN 1 ELSE 0) + Departs(results[1], ChartReply)
                + Departs(results[2], ChartReply) + Departs(summary_result, SynthReply)
                <= MaxFaults
         /\ faults' =
                faults + (IF empty_idx # 0 THEN 1 ELSE 0) + Departs(results[1], ChartReply)
                + Departs(results[2], ChartReply) + Departs(summary_result, SynthReply)
         /\ HandleChartSlide(slides_to_process[idx],
                             ExtractedData(slides_to_process[idx], env.chart_count,
                                           empty_idx),
                             results, summary_result)
    /\ idx' = idx + 1
    /\ visited' = Append(visited, slides_to_process[idx])
    /\ UNCHANGED <<env, pc, abort_reason, presentation, slides_to_process,
                   slide_2_context_snippets, failed_pastes, paste_calls, save_attempts,
                   saved>>
    /\ UNCHANGED parse_vars
    /\ UNCHANGED chart_vars
    /\ UNCHANGED extract_vars

\* The loop that prints the stored prompts: prompt_text[:1000] + "..." raises
\* TypeError, which nothing catches, when a stored prompt is None.
PrintPrompts ==
    /\ pc = "loop"
    /\ idx > Len(slides_to_process)
    /\ pc' = IF \E key \in DOMAIN all_prompts_generated : all_prompts_generated[key] = None
             THEN "crashed" ELSE "paste"
    /\ UNCHANGED <<env, abort_reason, presentation, slides_to_process, idx, visited,
                   all_extracted_data, slide_2_context_snippets, all_insights_to_paste,
                   all_prompts_generated, llm_calls, faults, failed_pastes, paste_calls,
                   save_attempts, saved>>
    /\ UNCHANGED parse_vars
    /\ UNCHANGED chart_vars
    /\ UNCHANGED extract_vars

\* 6. Paste Insights into PPT using the consolidated map
Paste ==
    /\ pc = "paste"
    /\ pc' = "save"
    /\ IF DOMAIN all_insights_to_paste # {}
       THEN /\ presentation' =
                   paste_all_text_to_ppt(presentation, all_insights_to_paste).prs
            /\ failed_pastes' = FailedPastes(presentation, all_insights_to_paste, 1,
                                             MaxOf(DOMAIN all_insights_to_paste))
            /\ paste_calls' = paste_calls + 1
       ELSE UNCHANGED <<presentation, failed_pastes, paste_calls>>
    /\ UNCHANGED <<env, abort_reason, slides_to_process, idx, visited, all_extracted_data,
                   slide_2_context_snippets, all_insights_to_paste, all_prompts_generated,
                   llm_calls, faults, save_attempts, saved>>
    /\ UNCHANGED parse_vars
    /\ UNCHANGED chart_vars
    /\ UNCHANGED extract_vars

\* 7. Save Output Files: presentation.save(PPTX_OUTPUT_PATH) writes the file or
\* raises, and the exception is caught.
Save ==
    /\ pc = "save"
    /\ pc' = "completed"
    /\ save_attempts' = save_attempts + 1
    /\ \E written \in BOOLEAN : saved' = written
    /\ UNCHANGED <<env, abort_reason, presentation, slides_to_process, idx, visited,
                   all_extracted_data, slide_2_context_snippets, all_insights_to_paste,
                   all_prompts_generated, llm_calls, faults, failed_pastes, paste_calls>>
    /\ UNCHANGED parse_vars
    /\ UNCHANGED chart_vars
    /\ UNCHANGED extract_vars

Next ==
    \/ InitClient
    \/ LoadConfig
    \/ LoadPresentation
    \/ SkipSlide
    \/ ProcessFullSlide
    \/ ProcessChartSlide
    \/ PrintPrompts
    \/ Paste
    \/ Save

Spec == Init /\ [][Next]_vars

\* The run is not stopped while it can take a step.
FairSpec == Spec /\ WF_vars(Next)

(***************************************************************************)
(* parse_llm_response on its own: the arguments are drawn from the raw     *)
(* responses below, and one step applies the function.                     *)
(***************************************************************************)
NarrativeLines ==
    {<<"1", ".", " ", "I", "n", "s", "t", "a", "l", "l", "s", " ", "r", "o", "s", "e", " ", "+",
      "1", "5", "0", "%", " ", "W", "o", "W", " ", "a", "t", " ", "1", "2", "4", "5", "0", ".">>,
     <<"*", "*", "K", "e", "y", " ", "H", "i", "g", "h", "l", "i", "g", "h", "t", "s", ":", "*",
      "*", "\n", "1", ".", " ", "P", "a", "i", "d", " ", "f", "e", "l", "l", " ", "-", "1",
      "3", "0", "%", " ", "t", "o", " ", "1", ",", "2", "5", "0", ",", "0", "0", "0", " ", "[",
      "T", "B", "D", "]">>,
     <<"1", ".", " ", "U", "p", " ", "1", "2", "%", " ", "a", "t", " ", "9", "9", "9", "\n", "\n",
      "\n", "2", ".", " ", "F", "l", "a", "t", " ", "a", "t", " ", "1", "2", "K">>}

SummaryLines == {<<>>, <<"\n", "S", "u", "m", "m", "a", "r", "y", " ", "P", "h", "r", "a", "s", "e", ":", " ", "S",
      "t", "r", "o", "n", "g", " ", "p", "a", "i", "d", " ", "g", "r", "o", "w", "t", "h">>, <<"\n", "s", "u", "m", "m", "a", "r", "y", " ", "p", "h", "r", "a", "s", "e", ":">>}

ContextLines ==
    {<<>>, <<"\n", "C", "o", "n", "t", "e", "x", "t", " ", "S", "n", "i", "p", "p", "e", "t", " ", "f",
      "o", "r", " ", "S", "l", "i", "d", "e", " ", "2", " ", "-", " ", "O", "r", "g", "a", "n",
      "i", "c", " ", "O", "S", ":", " ", "i", "O", "S">>,
     <<"\n", "C", "o", "n", "t", "e", "x", "t", " ", "S", "n", "i", "p", "p", "e", "t", " ", "f",
      "o", "r", " ", "S", "l", "i", "d", "e", " ", "2", " ", "-", " ", "P", "a", "i", "d", " ",
      "P", "a", "r", "t", "n", "e", "r", ":", " ", "N", "/", "A">>}

RawResponses ==
    {None, <<>>, <<" ">>, NoResponse}
    \cup {n \o s \o c : n \in NarrativeLines, s \in SummaryLines, c \in ContextLines}

ParseSlides == {1, 3, 5, 7}

ParseInit ==
    /\ env = [client_ok |-> TRUE, config |-> "valid", deck_readable |-> TRUE,
              num_slides |-> 0, placeholders |-> TRUE, chart_count |-> 0]
    /\ pc = "idle"
    /\ RunIdle
    /\ ChartIdle
    /\ ExtractIdle
    /\ parse_args \in [slide_num : ParseSlides, response_text : RawResponses,
                       is_chart_specific : BOOLEAN]
    /\ parse_done = FALSE
    /\ parse_result = [main_insight |-> None]

Parse ==
    /\ pc = "idle"
    /\ ~parse_done
    /\ parse_done' = TRUE
    /\ parse_result' = parse_llm_response(parse_args.slide_num, parse_args.response_text,
                                          parse_args.is_chart_specific)
    /\ UNCHANGED parse_args
    /\ UNCHANGED run_vars
    /\ UNCHANGED chart_vars
    /\ UNCHANGED extract_vars

ParseNext == Parse

SpecParse == ParseInit /\ [][ParseNext]_vars

\* ---------------------------------------------------------------------------
\* parse_llm_response on families of narratives: one percentage, one number,
\* bracketed placeholders, and marker lines among body lines.

PercentSigns == {<<>>, <<"+">>, <<"-">>}

\* above: the magnitude is above 120.
PercentValues ==
    {[text |-> <<"1", "1", "9">>, above |-> FALSE], [text |-> <<"1", "2", "0">>, above |-> FALSE],
     [text |-> <<"1", "2", "0", ".", "5">>, above |-> TRUE], [text |-> <<"1", "2", "1">>, above |-> TRUE],
     [text |-> <<"1", "5", "0">>, above |-> TRUE]}

PercentQualifiers == {<<"%">>, <<"%", " ", "W", "o", "W">>}

PercentFollowers == {<<>>, <<".">>, <<" ", "a", "t", " ", "3">>, <<",", " ", "t", "h", "e", "n">>}

PercentLead == <<"R", "o", "s", "e", " ">>

PercentNarrative(sign, value, qualifier, follower) ==
    PercentLead \o sign \o value.text \o qualifier \o follower

PercentResponses ==
    {PercentNarrative(sign, value, qualifier, follower) :
        sign \in PercentSigns, value \in PercentValues,
        qualifier \in PercentQualifiers, follower \in PercentFollowers}

NumberTokens ==
    {[text |-> <<"9", "9", "9">>, value |-> 999], [text |-> <<"1", "0", "0", "0">>, value |-> 1000],
     [text |-> <<"1", "2", "4", "5", "0">>, value |-> 12450], [text |-> <<"1", "2", ",", "4", "5", "0">>, value |-> 12450],
     [text |-> <<"1", "2", "5", "0", "0">>, value |-> 12500], [text |-> <<"1", "3", "5", "0", "0">>, value |-> 13500],
     [text |-> <<"9", "9", "9", "4", "9", "9">>, value |-> 999499], [text |-> <<"9", "9", "9", "5", "0", "0">>, value |-> 999500],
     [text |-> <<"1", "0", "0", "0", "0", "0", "0">>, value |-> 1000000], [text |-> <<"1", "2", "5", "0", "0", "0", "0">>, value |-> 1250000],
     [text |-> <<"1", ",", "2", "5", "0", ",", "0", "0", "0">>, value |-> 1250000], [text |-> <<"1", "3", "5", "0", "0", "0", "0">>, value |-> 1350000],
     [text |-> <<"1", "9", "5", "0", "0", "0", "0">>, value |-> 1950000], [text |-> <<"1", "2", "3", "4", "5", "6", "7", "8", "9">>, value |-> 123456789]}

NumberFollowers == {<<>>, <<".">>, <<" ", "x">>, <<"K">>, <<"M", " ", "x">>}

NumberLead == <<"A", "t", " ">>

NumberNarrative(token, follower) == NumberLead \o token.text \o follower

NumberResponses ==
    {NumberNarrative(token, follower) : token \in NumberTokens, follower \in NumberFollowers}

BracketResponses ==
    {<<"A", "t", " ", "[", "V", "a", "l", "u", "e", "]", " ", "n", "o", "w">>, <<"A", "t", " ", "[", "a", " ", "[", "b", "]", " ", "c", "]", " ", "n", "o", "w">>, <<"A", "t", " ", "[", "V", "a", "l", "u", "e", " ", "n", "o", "w">>, <<"A", "t", " ", "V", "a", "l", "u", "e", "]", " ", "n", "o", "w">>,
     <<"A", "t", " ", "[", "]", " ", "n", "o", "w">>, <<"[", "x", "]">>, <<"A", "t", " ", "]", "[", " ", "n", "o", "w">>, <<"A", "t", " ", "[", "a", "]", " ", "a", "n", "d", " ", "[", "b", "]">>}

BodyLines == [body1 |-> <<"1", ".", " ", "A">>, body2 |-> <<"2", ".", " ", "B">>]

SummaryLine == SummaryMarker \o <<" ", "O", "k">>

ContextLine(slide_num) == ContextMarker(slide_num) \o <<" ", "i", "O", "S">>

\* The orders of body lines and marker lines in a response.
MarkerLayouts(slide_num) ==
    {<<"body1", "body2">>, <<"body1", "body2", "summary">>, <<"body1", "summary", "body2">>,
     <<"summary", "body1", "body2">>, <<"body1", "summary">>}
    \cup (IF slide_num \in ContextProducers
          THEN {<<"body1", "body2", "summary", "context">>,
                <<"body1", "body2", "context", "summary">>,
                <<"body1", "context", "body2", "summary">>,
                <<"body1", "summary", "body2", "context">>,
                <<"context", "body1", "summary">>, <<"body1", "body2", "context">>}
          ELSE {})

LayoutLine(slide_num, tag) ==
    CASE tag = "summary" -> SummaryLine
      [] tag = "context" -> ContextLine(slide_num)
      [] OTHER -> BodyLines[tag]

MarkerResponse(slide_num, layout) ==
    Join([k \in 1..Len(layout) |-> LayoutLine(slide_num, layout[k])], <<"\n">>)

MarkerSlides == {1, 3, 4, 5}

NarrativeArgs ==
    [slide_num : {1}, response_text : PercentResponses \cup NumberResponses \cup BracketResponses,
     is_chart_specific : BOOLEAN]
    \cup UNION {{[slide_num |-> s, response_text |-> MarkerResponse(s, layout),
                   is_chart_specific |-> FALSE] : layout \in MarkerLayouts(s)} :
                 s \in MarkerSlides}

NarrativeInit ==
    /\ env = [client_ok |-> TRUE, config |-> "valid", deck_readable |-> TRUE,
              num_slides |-> 0, placeholders |-> TRUE, chart_count |-> 0]
    /\ pc = "idle"
    /\ RunIdle
    /\ ChartIdle
    /\ ExtractIdle
    /\ parse_args \in NarrativeArgs
    /\ parse_done = FALSE
    /\ parse_result = [main_insight |-> None]

SpecNarrative == NarrativeInit /\ [][ParseNext]_vars

\* ---------------------------------------------------------------------------
\* function_2_add_chart_data on the charts of a slide and a mapping.

\* excel_range, excel_ranges and range_name of an excel_source.
RangeSpec(excel_range, excel_ranges, range_name) ==
    [excel_range |-> excel_range, excel_ranges |-> excel_ranges, range_name |-> range_name]

RangeSpecs ==
    {RangeSpec(<<"A", "1", ":", "B", "2">>, <<>>, None), RangeSpec(<<"C", "1">>, <<>>, None),
     RangeSpec(EmptyRange, <<>>, None), RangeSpec(<<"S", "a", "l", "e", "s">>, <<>>, None),
     RangeSpec(None, <<>>, None),
     RangeSpec(None, <<>>, <<"T", "o", "t", "a", "l", "s">>), RangeSpec(None, <<>>, <<"L", "o", "c", "a", "l">>),
     RangeSpec(None, <<>>, <<"F", "o", "r", "e", "i", "g", "n">>), RangeSpec(None, <<>>, <<"U", "n", "k", "n", "o", "w", "n">>),
     RangeSpec(None, <<<<"A", "1", ":", "B", "2">>, <<"D", "1", ":", "D", "3">>>>, None),
     RangeSpec(None, <<<<"D", "1", ":", "D", "3">>, <<"C", "1">>, <<"A", "1", ":", "B", "2">>>>, None),
     RangeSpec(None, <<<<"S", "a", "l", "e", "s">>, <<"A", "1", ":", "B", "2">>, EmptyRange>>, None),
     RangeSpec(None, <<<<"S", "a", "l", "e", "s">>>>, None),
     RangeSpec(None, <<<<"A", "1", ":", "B", "2">>>>, None), RangeSpec(None, <<<<"D", "1", ":", "D", "3">>>>, None),
     RangeSpec(None, <<<<"C", "1">>>>, None), RangeSpec(None, <<EmptyRange>>, None),
     RangeSpec(None, <<EmptyRange, EmptyRange>>, None)}

\* excel_file_path of an excel_source: absent, a file, a path with no file.
FileOverrides == {None, OverrideFile, MissingFile}

SourceSheets == {DataSheet, OtherSheet, <<"S", "u", "m", "m", "a", "r", "y">>}

ExcelSource(sheet, spec, excel_file_path) ==
    [sheet |-> sheet, excel_range |-> spec.excel_range, excel_ranges |-> spec.excel_ranges,
     range_name |-> spec.range_name, excel_file_path |-> excel_file_path]

ExcelSources ==
    {ExcelSource(sheet, spec, excel_file_path) :
        sheet \in SourceSheets, spec \in RangeSpecs, excel_file_path \in FileOverrides}

NineChart == <<"C", "h", "a", "r", "t", " ", "9">>

TwoChart == <<"C", "h", "a", "r", "t", " ", "2">>

\* The charts entry of the slide in the mapping: two definitions for "Chart 9",
\* the first with the source under study, and one without a title for "Chart 2".
MappedCharts(excel_source) ==
    <<[shape_name |-> NineChart, title |-> <<"I", "n", "s", "t", "a", "l", "l", "s">>, chart_type |-> <<"l", "i", "n", "e">>,
       excel_source |-> excel_source],
      [shape_name |-> NineChart, title |-> <<"S", "p", "e", "n", "d">>, chart_type |-> <<"b", "a", "r">>,
       excel_source |-> ExcelSource(OtherSheet, RangeSpec(<<"C", "1">>, <<>>, None), None)],
      [shape_name |-> TwoChart,
       excel_source |-> ExcelSource(DataSheet, RangeSpec(<<"C", "1">>, <<>>, None), None)]>>

\* mapping_data: excel_path is None where the mapping has no default file.
MappingData(excel_path, excel_source) ==
    [excel_path |-> excel_path,
     slides |-> [n \in {NatToText(ChartDeck)} |-> [charts |-> MappedCharts(excel_source)]]]

FoundChart(name, id) == [name |-> name, id |-> id, title |-> <<"D", "e", "t", "e", "c", "t", "e", "d">>]

\* chart_identifiers of the slide: a chart the mapping does not name ("Picture
\* 3"), a chart without a shape name, the same shape name twice.
ChartIdentifiers ==
    {<<>>, <<FoundChart(NineChart, 4)>>,
     <<FoundChart(<<"P", "i", "c", "t", "u", "r", "e", " ", "3">>, 3), FoundChart(NineChart, 4), FoundChart(TwoChart, 5)>>,
     <<FoundChart(None, 6), FoundChart(TwoChart, 5)>>,
     <<FoundChart(<<"c", "h", "a", "r", "t", " ", "9">>, 7), FoundChart(NineChart, 4), FoundChart(NineChart, 8)>>}

DefaultPaths == {None, DefaultFile}

ChartArgs ==
    {[slide_number |-> ChartDeck, mapping_data |-> MappingData(excel_path, excel_source),
      slide_data |-> [chart_identifiers |-> chart_identifiers],
      closed_read |-> closed_read] :
        excel_path \in DefaultPaths, excel_source \in ExcelSources,
        chart_identifiers \in ChartIdentifiers, closed_read \in ClosedReads}

ChartInit ==
    /\ env = [client_ok |-> TRUE, config |-> "valid", deck_readable |-> TRUE,
              num_slides |-> 0, placeholders |-> TRUE, chart_count |-> 0]
    /\ pc = "idle"
    /\ RunIdle
    /\ ParseIdle
    /\ ExtractIdle
    /\ chart_args \in ChartArgs
    /\ chart_done = FALSE
    /\ chart_result = <<>>

AddChartData ==
    /\ pc = "idle"
    /\ ~chart_done
    /\ chart_done' = TRUE
    /\ chart_result' = function_2_add_chart_data(chart_args.slide_number,
                                                 chart_args.mapping_data,
                                                 chart_args.slide_data,
                                                 chart_args.closed_read)
    /\ UNCHANGED chart_args
    /\ UNCHANGED run_vars
    /\ UNCHANGED parse_vars
    /\ UNCHANGED extract_vars

ChartNext == AddChartData

SpecCharts == ChartInit /\ [][ChartNext]_vars

\* ---------------------------------------------------------------------------
\* function_1_extract_pptx on the shapes of a slide.

\* prs.slide_height, in the unit of shape.top and shape.height.
SlideHeight == 100

TitleText == <<" ", "O", "v", "e", "r", "v", "i", "e", "w", " ">>

NoChartTitle == [kind |-> "none", text |-> <<>>]

NoCell == [text |-> <<>>, raises |-> FALSE]

Cell(text) == [text |-> text, raises |-> FALSE]

RaisingCell == [text |-> <<>>, raises |-> TRUE]

TextShape(name, text, top, height) ==
    [name |-> name, shape_id |-> 2, has_text_frame |-> TRUE, text |-> text, top |-> top,
     height |-> height, has_table |-> FALSE, table |-> <<>>, has_chart |-> FALSE,
     chart_title |-> NoChartTitle]

TableShape(name, table) ==
    [name |-> name, shape_id |-> 3, has_text_frame |-> FALSE, text |-> <<>>, top |-> 20,
     height |-> 40, has_table |-> TRUE, table |-> table, has_chart |-> FALSE,
     chart_title |-> NoChartTitle]

ChartShape(name, chart_title) ==
    [name |-> name, shape_id |-> 4, has_text_frame |-> FALSE, text |-> <<>>, top |-> 20,
     height |-> 40, has_table |-> FALSE, table |-> <<>>, has_chart |-> TRUE,
     chart_title |-> chart_title]

PictureShape ==
    [name |-> <<"P", "i", "c", "t", "u", "r", "e", " ", "3">>, shape_id |-> 5, has_text_frame |-> FALSE, text |-> <<>>,
     top |-> 90, height |-> 5, has_table |-> FALSE, table |-> <<>>, has_chart |-> FALSE,
     chart_title |-> NoChartTitle]

\* The title shape of a slide, among its shapes like every other shape.
TitleShape == TextShape(<<"T", "i", "t", "l", "e", " ", "1">>, TitleText, 5, 20)

\* Text regions at, above and below the two thresholds, with a text that is the
\* title, another text, white space only, and none.
RegionTexts == {<<"O", "v", "e", "r", "v", "i", "e", "w">>, <<" ", "B", "o", "d", "y", " ", "t", "e", "x", "t", " ">>, <<" ", " ">>, <<>>}

RegionTops == {0, 85, 86}

RegionHeights == {14, 15, 50}

TextRegions ==
    {TextShape(<<"T", "e", "x", "t", "B", "o", "x", " ", "2">>, text, top, height) :
        text \in RegionTexts, top \in RegionTops, height \in RegionHeights}

\* Tables: read in full, raising in the second row, raising in the first cell, and
\* without rows.
Tables ==
    {<<<<Cell(<<"W", "e", "e", "k">>), Cell(<<" ", "I", "n", "s", "t", "a", "l", "l", "s">>)>>, <<Cell(<<"W", "1", " ">>), Cell(<<"1", "0">>)>>>>,
     <<<<Cell(<<"W", "e", "e", "k">>), Cell(<<"I", "n", "s", "t", "a", "l", "l", "s">>)>>, <<Cell(<<"W", "1">>), RaisingCell>>>>,
     <<<<RaisingCell>>>>,
     <<>>}

LastTable == <<<<Cell(<<"T", "o", "t", "a", "l">>)>>>>

ChartTitles ==
    {NoChartTitle, [kind |-> "text", text |-> <<" ", "I", "n", "s", "t", "a", "l", "l", "s", " ">>], [kind |-> "raises", text |-> <<>>]}

MiddleShapes ==
    {ChartShape(NineChart, chart_title) : chart_title \in ChartTitles}
    \cup {PictureShape, TextShape(<<"T", "e", "x", "t", "B", "o", "x", " ", "7">>, <<"C", "l", "o", "s", "i", "n", "g", " ", "n", "o", "t", "e">>, 30, 30)}

SlideTitles ==
    {[kind |-> "none", text |-> <<>>], [kind |-> "raises", text |-> <<>>],
     [kind |-> "text", text |-> TitleText]}

\* A slide: its title shape if it has one, a text region, a table, a chart or
\* another shape, and a last table.
SlideOf(title, region, table, middle) ==
    [title |-> title,
     shapes |-> (IF title.kind = "none" THEN <<>> ELSE <<TitleShape>>)
                \o <<region, TableShape(<<"T", "a", "b", "l", "e", " ", "4">>, table), middle,
                     TableShape(<<"T", "a", "b", "l", "e", " ", "6">>, LastTable)>>]

Slides ==
    {SlideOf(title, region, table, middle) :
        title \in SlideTitles, region \in TextRegions, table \in Tables,
        middle \in MiddleShapes}

PlainSlide ==
    SlideOf([kind |-> "text", text |-> TitleText],
            TextShape(<<"T", "e", "x", "t", "B", "o", "x", " ", "2">>, <<" ", "B", "o", "d", "y", " ", "t", "e", "x", "t", " ">>, 0, 50), LastTable, PictureShape)

ExtractArgs ==
    {[slide_number_1_based |-> 1, prs |-> [slide_height |-> SlideHeight, slides |-> <<slide>>]] :
        slide \in Slides}
    \cup {[slide_number_1_based |-> n,
           prs |-> [slide_height |-> SlideHeight, slides |-> <<PlainSlide>>]] : n \in {0, 2}}

ExtractInit ==
    /\ env = [client_ok |-> TRUE, config |-> "valid", deck_readable |-> TRUE,
              num_slides |-> 0, placeholders |-> TRUE, chart_count |-> 0]
    /\ pc = "idle"
    /\ RunIdle
    /\ ParseIdle
    /\ ChartIdle
    /\ extract_args \in ExtractArgs
    /\ extract_done = FALSE
    /\ extract_result = NoSlideData

ExtractSlide ==
    /\ pc = "idle"
    /\ ~extract_done
    /\ extract_done' = TRUE
    /\ extract_result' = function_1_extract_pptx(extract_args.slide_number_1_based,
                                                 extract_args.prs)
    /\ UNCHANGED extract_args
    /\ UNCHANGED run_vars
    /\ UNCHANGED parse_vars
    /\ UNCHANGED chart_vars

ExtractNext == ExtractSlide

SpecExtract == ExtractInit /\ [][ExtractNext]_vars

\* ---------------------------------------------------------------------------
\* paste_all_text_to_ppt on a deck and a map of texts.

PictureFive == <<"P", "i", "c", "t", "u", "r", "e", " ", "5">>

MissingBox == <<"M", "i", "s", "s", "i", "n", "g", " ", "B", "o", "x">>

\* A deck of two slides.  Slide 1 has two shapes named "Insights Box" once
\* trimmed, and a picture; the summary box of slide 2 is a picture.
PasteDeck ==
    <<<<[name |-> <<"T", "i", "t", "l", "e", " ", "1">>, has_text_frame |-> TRUE, paragraphs |-> <<<<"W", "e", "e", "k", "l", "y", " ", "r", "e", "p", "o", "r", "t">>>>],
        [name |-> InsightsBox \o <<" ">>, has_text_frame |-> TRUE, paragraphs |-> TemplateText],
        [name |-> PictureFive, has_text_frame |-> FALSE, paragraphs |-> <<>>],
        [name |-> InsightsBox, has_text_frame |-> TRUE, paragraphs |-> TemplateText],
        [name |-> SummaryBox, has_text_frame |-> TRUE, paragraphs |-> TemplateText]>>,
      <<[name |-> InsightsBox, has_text_frame |-> TRUE, paragraphs |-> TemplateText],
        [name |-> SummaryBox, has_text_frame |-> FALSE, paragraphs |-> <<>>]>>>>

\* Narratives of several lines: numbered, bulleted and plain lines, empty lines
\* between them, and a line whose text begins with a number of its own.
ListedNarrative == <<"1", ".", " ", "I", "n", "s", "t", "a", "l", "l", "s", " ", "r", "o", "s", "e", " ", "1",
      "2", "%", "\n", "\n", " ", " ", "-", " ", "T", "w", "o", " ", "m", "a", "r", "k", "e",
      "t", "s", " ", "o", "p", "e", "n", "e", "d", " ", "\n", "*", " ", "S", "p", "e", "n",
      "d", " ", "f", "e", "l", "l", "\n", "R", "e", "t", "e", "n", "t", "i", "o", "n", " ",
      "f", "l", "a", "t">>

ChartNarrative == <<"K", "e", "y", " ", "p", "o", "i", "n", "t", "\n", "\n", "\n", "1", "0", ".", " ", "2", "0",
      "2", "4", " ", "w", "a", "s", " ", "s", "t", "r", "o", "n", "g", "\n", "-", "D", "a",
      "s", "h", "\n", " ", "\n", "2", ")", " ", "S", "e", "c", "o", "n", "d", "\n", "3", " ",
      "m", "a", "r", "k", "e", "t", "s", " ", "g", "r", "e", "w">>

SummaryText == <<"G", "o", "o", "d", " ", "w", "e", "e", "k">>

\* The texts and types of an entry.
PasteTexts ==
    {[text |-> ListedNarrative, type |-> "key_highlight"],
     [text |-> ChartNarrative, type |-> "chart_specific"],
     [text |-> SummaryText, type |-> "summary_phrase"],
     [text |-> SummaryText, type |-> "other"],
     [text |-> None, type |-> "key_highlight"],
     [text |-> <<>>, type |-> "summary_phrase"],
     [text |-> NoResponse, type |-> "key_highlight"]}

\* The shape names of an entry: a name as on the slide, the same name after a
\* blank, a name with blanks around it, the picture, and a name no shape has.
PasteTargets == {InsightsBox, <<" ">> \o InsightsBox, <<" ", "S", "u", "m", "m", "a", "r", "y", " ", "B", "o", "x", " ">>, PictureFive, MissingBox}

PasteEntryOf(shape, t) == [shape |-> shape, text |-> t.text, type |-> t.type]

\* The map of a slide: one or two entries with different shape names.
SlideMaps ==
    {<<PasteEntryOf(shape, t)>> : shape \in PasteTargets, t \in PasteTexts}
    \cup {<<PasteEntryOf(p[1], p[3]), PasteEntryOf(p[2], p[4])>> :
             p \in {q \in PasteTargets \X PasteTargets \X PasteTexts \X PasteTexts :
                       q[1] # q[2]}}

\* The map of the second slide: none, an entry that is placed, one that is not.
SecondMaps ==
    {<<>>, <<PasteEntryOf(InsightsBox, [text |-> SummaryText, type |-> "summary_phrase"])>>,
     <<PasteEntryOf(SummaryBox, [text |-> SummaryText, type |-> "summary_phrase"])>>}

\* all_text_map; beyond says whether it has an entry for a slide after the last.
TextMap(first, second, beyond) ==
    LET one == DictSet(EmptyDict, 1, first)
        two == IF second = <<>> THEN one ELSE DictSet(one, Len(PasteDeck), second)
    IN  IF beyond
        THEN DictSet(two, Len(PasteDeck) + 1,
                     <<PasteEntryOf(InsightsBox,
                                    [text |-> SummaryText, type |-> "summary_phrase"])>>)
        ELSE two

TextMaps ==
    {TextMap(first, second, beyond) :
        first \in SlideMaps, second \in SecondMaps, beyond \in BOOLEAN}

PasteInit ==
    /\ env = [client_ok |-> TRUE, config |-> "valid", deck_readable |-> TRUE,
              num_slides |-> Len(PasteDeck), placeholders |-> TRUE, chart_count |-> 0]
    /\ pc = "paste"
    /\ abort_reason = ""
    /\ presentation = PasteDeck
    /\ slides_to_process = ProcessingOrder(Len(PasteDeck))
    /\ idx = Len(PasteDeck) + 1
    /\ visited = ProcessingOrder(Len(PasteDeck))
    /\ all_extracted_data = EmptyDict
    /\ slide_2_context_snippets = EmptyDict
    /\ all_insights_to_paste \in TextMaps
    /\ all_prompts_generated = EmptyDict
    /\ llm_calls = <<>>
    /\ faults = 0
    /\ failed_pastes = <<>>
    /\ paste_calls = 0
    /\ save_attempts = 0
    /\ saved = FALSE
    /\ ParseIdle
    /\ ChartIdle
    /\ ExtractIdle

PasteNext == Paste \/ Save

SpecPaste == PasteInit /\ [][PasteNext]_vars

(***************************************************************************)
(* Properties of a run and of parse_llm_response.                           *)
(***************************************************************************)
\* Whether the text lit occurs in the text s.
Contains(s, lit) == \E i \in 1..Len(s) : LitAt(s, i, lit)

\* The text that follows label in s, up to the end of its line.
SlotAfter(s, label, i) ==
    IF i = 0 THEN None
    ELSE SubSeq(s, i + Len(label), RunEnd(s, i + Len(label), Range(s) \ {"\n"}) - 1)

SlotValue(s, label) == SlotAfter(s, label, Least({j \in 1..Len(s) : LitAt(s, j, label)}))

\* The place of a slide in the required order: 3, 4, 5, then 2, then the others.
OrderRank(s) == IF s \in {3, 4, 5} THEN s - 2 ELSE IF s = 2 THEN 4 ELSE 4 + s

\* The loop over slides_to_process has ended.
LoopEnded == pc \in {"paste", "save", "completed", "crashed"}

\* The positions in llm_calls of the requests for slide s under the key k, and of
\* those for slide s under any other key.
CallsUnder(s, k) == {i \in 1..Len(llm_calls) : llm_calls[i].slide = s /\ llm_calls[i].key = k}

CallsNotUnder(s, k) ==
    {i \in 1..Len(llm_calls) : llm_calls[i].slide = s /\ llm_calls[i].key # k}

\* The entries of slide s in all_insights_to_paste that target shape, or have type.
EntriesFor(s, shape) ==
    {i \in 1..Len(all_insights_to_paste[s]) : all_insights_to_paste[s][i].shape = shape}

EntriesOfType(s, type) ==
    {i \in 1..Len(all_insights_to_paste[s]) : all_insights_to_paste[s][i].type = type}

\* C1: the slides are taken in the order 3, 4, 5 (those in the deck), then 2, then
\* the others ascending, none left out; the requests to the completion service
\* follow that order; and the prompt of slide 2 is composed from the context as the
\* slides 3, 4 and 5 have left it, all of them having been taken before.
C1_ProcessingOrder ==
    /\ \A i, j \in 1..Len(visited) :
           i < j => OrderRank(visited[i]) < OrderRank(visited[j])
    /\ \A s \in 1..env.num_slides, j \in 1..Len(visited) :
           OrderRank(s) < OrderRank(visited[j]) => s \in Range(visited)
    /\ Range(visited) \subseteq 1..env.num_slides
    /\ LoopEnded => Range(visited) = 1..env.num_slides
    /\ \A i, j \in 1..Len(llm_calls) :
           i < j => OrderRank(llm_calls[i].slide) <= OrderRank(llm_calls[j].slide)
    /\ FullPromptKey(2) \in DOMAIN all_prompts_generated =>
           /\ {3, 4, 5} \cap (1..env.num_slides) \subseteq Range(visited)
           /\ all_prompts_generated[FullPromptKey(2)] =
                  build_prompt_for_slide(2, <<>>, slide_2_context_snippets, NoFocus)

\* A deck with every kind of slide before slide 2: the producers have been asked,
\* one has written its context, and slide 2 has been asked after them.
C1_Witness ==
    /\ Len(visited) >= 6
    /\ visited[4] = 2
    /\ slide_2_context_snippets["organic_os"] = <<"i", "O", "S">>
    /\ \E i \in 1..Len(llm_calls) : llm_calls[i].slide = 2 /\ i >= 4

ContextSlot(key) ==
    IF key = "organic_os" THEN OrganicSlot
    ELSE IF key = "owned_campaign" THEN OwnedSlot
    ELSE PaidSlot

\* C2: once the prompt of slide 2 is composed, the slot of every context key that
\* no producer slide has set reads "N/A".
C2_UnsetContextReadsNA ==
    FullPromptKey(2) \in DOMAIN all_prompts_generated =>
        \A key \in DOMAIN slide_2_context_snippets :
            slide_2_context_snippets[key] = None =>
                SlotValue(all_prompts_generated[FullPromptKey(2)], ContextSlot(key))
                    = NotAvailable

\* C3: for a slide without a template the prompt is None, every entry recorded for
\* the slide carries the placeholder text, and the run goes on: the loop takes every
\* slide and the run is not ended before the paste and the save.
C3_NoTemplateContinues ==
    \A s \in DOMAIN all_insights_to_paste :
        s \notin {1, 2, 3, 4, 5, 6, 8, 9, 11} \cup {7, 10} =>
            /\ build_prompt_for_slide(s, <<>>, EmptyDict, NoFocus) = None
            /\ \A i \in 1..Len(all_insights_to_paste[s]) :
                   all_insights_to_paste[s][i].text = NoPromptGenerated
            /\ LoopEnded => Range(visited) = 1..env.num_slides
            /\ pc # "crashed"

\* The errors of the completion service other than a failed authentication.
RecoverableErrors == {"rate_limit", "connection", "api_error", "unexpected"}

\* C4: no prompt is sent twice; a request that ends in a rate-limit, connection, API
\* or unclassified error leaves "[Error: No response from LLM]" as the main insight
\* of its unit, recorded for the shape the unit targets (for the synthesis of a
\* chart-driven slide, whose main insight is not kept, "[No summary generated]" as
\* the summary); and the run goes on: the other chart of the slide still gets its
\* entry and the loop takes every slide.
C4_FailedCallRecorded ==
    /\ \A i, j \in 1..Len(llm_calls) : i < j => llm_calls[i].key # llm_calls[j].key
    /\ \A i \in 1..Len(llm_calls) :
           (/\ llm_calls[i].outcome \in RecoverableErrors
            /\ llm_calls[i].key = SummaryPromptKey(llm_calls[i].slide))
           => \A k \in EntriesFor(llm_calls[i].slide, llm_calls[i].shape) :
                  all_insights_to_paste[llm_calls[i].slide][k].text = NoSummaryGenerated
    /\ \A i \in 1..Len(llm_calls) :
           (/\ llm_calls[i].outcome \in RecoverableErrors
            /\ llm_calls[i].key # SummaryPromptKey(llm_calls[i].slide)
            /\ Truthy(llm_calls[i].shape))
           => /\ EntriesFor(llm_calls[i].slide, llm_calls[i].shape) # {}
              /\ \A k \in EntriesFor(llm_calls[i].slide, llm_calls[i].shape) :
                     all_insights_to_paste[llm_calls[i].slide][k].text = NoResponse
    /\ \A s \in ChartSlides \cap DOMAIN all_insights_to_paste :
           \A k \in 1..Len(ChartTextboxMap(s)) :
               EntriesFor(s, ChartTextboxMap(s)[k].textbox) # {}
    /\ (\E i \in 1..Len(llm_calls) : llm_calls[i].outcome \in RecoverableErrors) =>
           /\ pc # "aborted"
           /\ LoopEnded => Range(visited) = 1..env.num_slides

\* The first chart of slide 7 ran into the rate limit, the second chart was asked
\* after it, and the run has ended with the save.
C4_Witness ==
    /\ pc = "completed"
    /\ \E i \in 1..Len(llm_calls) :
           /\ llm_calls[i].outcome = "rate_limit"
           /\ llm_calls[i].slide = 7
           /\ llm_calls[i].shape = ContentPlaceholder14
           /\ i < Len(llm_calls)
           /\ llm_calls[i + 1].shape = ContentPlaceholder15
           /\ llm_calls[i + 1].outcome = "ok"

\* C5: a failed authentication of a request is the last request of the run, and the
\* run does not go on to the paste and the save.
C5_AuthenticationFatal ==
    \A i \in 1..Len(llm_calls) :
        llm_calls[i].outcome = "authentication" =>
            /\ i = Len(llm_calls)
            /\ pc \notin {"paste", "save", "completed"}

\* C6: a run that has passed the setup is not ended before the paste and the save;
\* paste_all_text_to_ppt is called once it has taken the last slide, not before and
\* not twice (a run that has nothing to paste may leave the call out), and the run
\* ends with one attempt to save.
C6_PasteOnceThenSave ==
    /\ pc # "crashed"
    /\ paste_calls <= 1
    /\ paste_calls = 1 => LoopEnded /\ Range(visited) = 1..env.num_slides
    /\ (pc \in {"save", "completed"} /\ DOMAIN all_insights_to_paste # {}) => paste_calls = 1
    /\ save_attempts <= 1
    /\ save_attempts = 1 <=> pc = "completed"

\* Nothing of the run has happened: no slide taken, no request sent, no paste, no save.
NothingDone ==
    /\ visited = <<>>
    /\ llm_calls = <<>>
    /\ DOMAIN all_insights_to_paste = {}
    /\ paste_calls = 0
    /\ save_attempts = 0
    /\ ~saved

\* C7 as stated: a run is aborted only by the configuration or the document, and
\* then nothing of the run has happened.
C7_AbortOnlyConfigOrDocument ==
    pc = "aborted" =>
        /\ abort_reason \in {"config", "document"}
        /\ env.config # "valid" \/ ~env.deck_readable
        /\ NothingDone

\* C7: a run is aborted only if the completion client cannot be initialised, the
\* configuration is absent or not valid, or the document cannot be read; a run with
\* none of these is never aborted; and in the aborted state nothing has happened.
C7_AbortOnlyOnSetupFailure ==
    /\ pc = "aborted" =>
           /\ abort_reason \in {"client", "config", "document"}
           /\ abort_reason = "client" => ~env.client_ok
           /\ abort_reason = "config" => env.client_ok /\ env.config # "valid"
           /\ abort_reason = "document" =>
                  env.client_ok /\ env.config = "valid" /\ ~env.deck_readable
           /\ NothingDone
    /\ pc # "aborted" => abort_reason = ""
    /\ (env.client_ok /\ env.config = "valid" /\ env.deck_readable) => pc # "aborted"

\* The client could not be initialised although the configuration and the document
\* are in order.
C7_Witness ==
    /\ pc = "aborted"
    /\ abort_reason = "client"
    /\ env.config = "valid"
    /\ env.deck_readable

\* The datasets of slide s that a text box of chart_textbox_map takes and that hold
\* data.
ChartsSent(s) ==
    {k \in 1..MinOf({Len(ChartTextboxMap(s)), Len(all_extracted_data[s].charts_excel_data)}) :
        all_extracted_data[s].charts_excel_data[k].data # <<>>}

C9_NoResponseResult ==
    parse_done =>
        /\ parse_args.response_text \in {None, <<>>} =>
               /\ parse_result.main_insight = NoResponse
               /\ ~parse_args.is_chart_specific =>
                      /\ parse_result.summary_phrase = None
                      /\ parse_result.context_snippet = None
        /\ DOMAIN parse_result =
               IF parse_args.is_chart_specific THEN {"main_insight"}
               ELSE {"main_insight", "summary_phrase", "context_snippet"}

\* The empty text has been parsed in full-slide mode.
C9_Witness ==
    /\ parse_done
    /\ parse_args.response_text = <<>>
    /\ ~parse_args.is_chart_specific
    /\ parse_result.main_insight = NoResponse

ScenarioResponse ==
    <<"1", ".", " ", "I", "n", "s", "t", "a", "l", "l", "s", " ", "r", "o", "s", "e", " ", "+",
      "1", "5", "0", "%", " ", "W", "o", "W", " ", "a", "t", " ", "1", "2", "4", "5", "0", ".",
      "\n", "S", "u", "m", "m", "a", "r", "y", " ", "P", "h", "r", "a", "s", "e", ":", " ",
      "S", "t", "r", "o", "n", "g", " ", "p", "a", "i", "d", " ", "g", "r", "o", "w", "t", "h">>

ScenarioSummary == <<"S", "t", "r", "o", "n", "g", " ", "p", "a", "i", "d", " ", "g", "r", "o", "w", "t", "h">>

ScenarioInsight == <<"1", ".", " ", "I", "n", "s", "t", "a", "l", "l", "s", " ", "r", "o", "s", "e", " ", "a",
      " ", "s", "i", "g", "n", "i", "f", "i", "c", "a", "n", "t", " ", "i", "n", "c", "r", "e",
      "a", "s", "e", " ", "a", "t", " ", "1", "2", "K", ".">>

\* C10 as stated: the scenario response parses to the summary phrase "Strong paid
\* growth" and a main insight with "a significant increase" for "+150% WoW" and
\* "12.5K" for "12450".
C10_ScenarioTwelvePointFiveK ==
    (parse_done /\ parse_args.response_text = ScenarioResponse
     /\ ~parse_args.is_chart_specific) =>
        /\ parse_result.summary_phrase = ScenarioSummary
        /\ Contains(parse_result.main_insight, SignificantIncrease)
        /\ ~Contains(parse_result.main_insight, <<"+", "1", "5", "0", "%", " ", "W", "o", "W">>)
        /\ Contains(parse_result.main_insight, <<"1", "2", ".", "5", "K">>)
        /\ ~Contains(parse_result.main_insight, <<"1", "2", "4", "5", "0">>)

\* C10: the scenario response parses to the summary phrase "Strong paid growth" and
\* a main insight with "a significant increase" for "+150% WoW" and "12K" (the
\* thousands without a decimal) for "12450".
C10_ScenarioTwelveK ==
    (parse_done /\ parse_args.response_text = ScenarioResponse
     /\ ~parse_args.is_chart_specific) =>
        /\ parse_result.summary_phrase = ScenarioSummary
        /\ Contains(parse_result.main_insight, SignificantIncrease)
        /\ ~Contains(parse_result.main_insight, <<"+", "1", "5", "0", "%", " ", "W", "o", "W">>)
        /\ parse_result.main_insight = ScenarioInsight
        /\ ~Contains(parse_result.main_insight, <<"1", "2", ".", "5", "K">>)
        /\ ~Contains(parse_result.main_insight, <<"1", "2", "4", "5", "0">>)

\* The scenario response has been parsed in full-slide mode.
C10_Witness ==
    /\ parse_done
    /\ parse_args.response_text = ScenarioResponse
    /\ ~parse_args.is_chart_specific
    /\ Contains(parse_result.main_insight, <<"1", "2", "K">>)

\* What C11 requires in place of sign value qualifier.
PercentRendered(sign, value, qualifier) ==
    IF ~value.above THEN sign \o value.text \o qualifier
    ELSE IF sign = <<"-">> THEN SignificantDecrease
    ELSE SignificantIncrease

\* C11: for a signed number with a percent sign (and an optional WoW qualifier) in
\* the narrative, main_insight contains the substring unchanged when the magnitude
\* is at most 120, "a significant increase" in its place when the value is above
\* 120 and "a significant decrease" when it is below -120, wherever the substring
\* stands (before punctuation, at the end of the text), after the numbers have been
\* abbreviated.
C11_PercentByMagnitude ==
    parse_done =>
        \A sign \in PercentSigns, value \in PercentValues,
           qualifier \in PercentQualifiers, follower \in PercentFollowers :
            parse_args.response_text = PercentNarrative(sign, value, qualifier, follower) =>
                /\ Contains(parse_result.main_insight,
                            PercentRendered(sign, value, qualifier))
                /\ value.above =>
                       ~Contains(parse_result.main_insight, value.text \o <<"%">>)

\* The quotients of value by unit that are nearest to value / unit.
Nearest(value, unit) ==
    {q \in {value \div unit, value \div unit + 1} :
        2 * (IF value >= q * unit THEN value - q * unit ELSE q * unit - value) <= unit}

\* The renderings C12 allows for an integer value.
NumberRenderings(value) ==
    IF value >= Million
    THEN {NatToText(t \div 10) \o <<".">> \o NatToText(t % 10) \o <<"M">> :
             t \in Nearest(value, Million \div 10)}
    ELSE IF value >= Thousand
    THEN {NatToText(q) \o <<"K">> : q \in Nearest(value, Thousand)}
    ELSE {NatToText(value)}

\* The followers that are not a K/M suffix.
FreeFollowers == {f \in NumberFollowers : f = <<>> \/ f[1] \notin {"K", "M"}}

C13_NoBracketLeft ==
    (parse_done /\ Truthy(parse_args.response_text)) =>
        /\ "[" \notin Range(parse_result.main_insight)
        /\ "]" \notin Range(parse_result.main_insight)

\* The lines of layout that are not marker lines, in order.
BodyOf(layout) ==
    LET kept == SelectSeq(layout, LAMBDA tag : tag \notin {"summary", "context"})
    IN  Join([k \in 1..Len(kept) |-> BodyLines[kept[k]]], <<"\n">>)

\* C14: in full-slide mode the summary phrase (and, on slides 3, 4, 5, the context
\* snippet) is the text of its one marker line after the marker, and every other
\* line of the response, before or after the marker line, stays in main_insight.
C14_OnlyMarkerLineRemoved ==
    parse_done =>
        \A s \in MarkerSlides :
            \A layout \in MarkerLayouts(s) :
                (/\ parse_args.slide_num = s
                 /\ ~parse_args.is_chart_specific
                 /\ parse_args.response_text = MarkerResponse(s, layout)) =>
                    /\ parse_result.summary_phrase =
                           (IF \E k \in 1..Len(layout) : layout[k] = "summary"
                            THEN <<"O", "k">> ELSE None)
                    /\ parse_result.context_snippet =
                           (IF \E k \in 1..Len(layout) : layout[k] = "context"
                            THEN <<"i", "O", "S">> ELSE None)
                    /\ parse_result.main_insight = BodyOf(layout)

ContextKeys == {"organic_os", "owned_campaign", "paid_partner"}

\* The slide that may write a context key.
ProducerOf(key) ==
    IF key = "organic_os" THEN 3 ELSE IF key = "owned_campaign" THEN 4 ELSE 5

\* A step writes a context key only while it processes the producer of that key,
\* and the prompt of a slide handled as a whole is composed with the context on
\* slide 2 and without it on every other slide.
ContextFrameStep ==
    /\ \A key \in ContextKeys :
           DictGet(slide_2_context_snippets', key, None)
               # DictGet(slide_2_context_snippets, key, None) =>
               /\ InLoop
               /\ visited' = Append(visited, ProducerOf(key))
    /\ (/\ InLoop
        /\ visited' # visited
        /\ slides_to_process[idx] \notin ChartSlides
        /\ FullPromptKey(slides_to_process[idx]) \in DOMAIN all_prompts_generated') =>
           all_prompts_generated'[FullPromptKey(slides_to_process[idx])] =
               build_prompt_for_slide(
                   slides_to_process[idx],
                   ExtractedData(slides_to_process[idx], env.chart_count, 0),
                   IF slides_to_process[idx] = 2 THEN slide_2_context_snippets
                   ELSE EmptyDict,
                   NoFocus)

\* C15: the cross-slide context is written only while a producer slide is
\* processed, each producer writes only its own key (3 organic_os, 4
\* owned_campaign, 5 paid_partner), every other slide leaves the three keys as
\* they are, and only the prompt of slide 2 is composed with the context.
C15_ContextFrame == [][ContextFrameStep]_vars

\* The three producers have written their keys and slide 2 has been composed.
C15_Witness ==
    /\ \A key \in ContextKeys : DictGet(slide_2_context_snippets, key, None) # None
    /\ FullPromptKey(2) \in DOMAIN all_prompts_generated
    /\ Len(visited) >= 5

\* The arguments of the call of function_2_add_chart_data.
FoundOnSlide == chart_args.slide_data.chart_identifiers

MappedOnSlide == chart_args.mapping_data.slides[NatToText(chart_args.slide_number)].charts

\* Whether definition k is the first entry of the mapping with the shape name.
FirstEntryFor(k, name) ==
    /\ k \in 1..Len(MappedOnSlide)
    /\ MappedOnSlide[k].shape_name = name
    /\ \A j \in 1..(k - 1) : MappedOnSlide[j].shape_name # name

\* The datasets of chart_result with the identifier name.
DatasetsOf(name) == {i \in 1..Len(chart_result) : chart_result[i].identifier = name}

\* The file a definition is resolved from: its override, else the default path.
FileFor(definition) ==
    IF Truthy(definition.excel_source.excel_file_path)
    THEN definition.excel_source.excel_file_path
    ELSE chart_args.mapping_data.excel_path

\* What the source of a definition resolves to in its file.
ResolvedFrom(definition) ==
    IF ~Truthy(FileFor(definition)) THEN NoRows
    ELSE ChartData(FileFor(definition), definition.excel_source, chart_args.closed_read)

\* C16: after function_2_add_chart_data every dataset of the slide carries the
\* shape name of a chart found on the slide, the mapping has an entry with exactly
\* that shape_name, and the first such entry supplies the dataset's title, type and
\* data; a found chart that no entry names has no dataset.
C16_DatasetOnlyForMatchedChart ==
    chart_done =>
        /\ \A i \in 1..Len(chart_result) :
               /\ \E c \in 1..Len(FoundOnSlide) :
                      FoundOnSlide[c].name = chart_result[i].identifier
               /\ \E k \in 1..Len(MappedOnSlide) :
                      /\ FirstEntryFor(k, chart_result[i].identifier)
                      /\ chart_result[i].mapped_title =
                             (IF "title" \in DOMAIN MappedOnSlide[k]
                              THEN MappedOnSlide[k].title ELSE <<"D", "e", "t", "e", "c", "t", "e", "d">>)
                      /\ chart_result[i].mapped_type =
                             (IF "chart_type" \in DOMAIN MappedOnSlide[k]
                              THEN MappedOnSlide[k].chart_type ELSE NotAvailable)
                      /\ chart_result[i].data = ResolvedFrom(MappedOnSlide[k]).rows
        /\ \A c \in 1..Len(FoundOnSlide) :
               (\A k \in 1..Len(MappedOnSlide) :
                    MappedOnSlide[k].shape_name # FoundOnSlide[c].name) =>
                   DatasetsOf(FoundOnSlide[c].name) = {}

\* A slide with an unmapped chart and two mapped ones: the dataset of "Chart 9"
\* comes from the first of its two entries, the unmapped chart has none.
C16_Witness ==
    /\ chart_done
    /\ Len(FoundOnSlide) = 3
    /\ FoundOnSlide[1].name = <<"P", "i", "c", "t", "u", "r", "e", " ", "3">>
    /\ Len(chart_result) = 2
    /\ chart_result[1].identifier = NineChart
    /\ chart_result[1].mapped_title = <<"I", "n", "s", "t", "a", "l", "l", "s">>
    /\ chart_result[1].data = <<<<<<"W", "e", "e", "k">>, <<"I", "n", "s", "t", "a", "l", "l", "s">>>>, <<<<"W", "1">>, <<"1", "0">>>>>>
    /\ chart_result[2].mapped_title = <<"D", "e", "t", "e", "c", "t", "e", "d">>

\* C17: every found chart with a matching entry is resolved from the entry's file
\* override when there is one and from the default path otherwise: it has a
\* dataset with what its source holds in that file, even when no default path is
\* configured; a chart with neither override nor default has none.
C17_OverrideElseDefault ==
    chart_done =>
        \A c \in 1..Len(FoundOnSlide) :
            \A k \in 1..Len(MappedOnSlide) :
                (Truthy(FoundOnSlide[c].name) /\ FirstEntryFor(k, FoundOnSlide[c].name)) =>
                    IF ResolvedFrom(MappedOnSlide[k]).is_none
                    THEN DatasetsOf(FoundOnSlide[c].name) = {}
                    ELSE \E i \in DatasetsOf(FoundOnSlide[c].name) :
                             chart_result[i].data = ResolvedFrom(MappedOnSlide[k]).rows

\* The datasets fetched for the ranges of a list, without those that could not be
\* fetched.
FetchedFor(definition) ==
    FetchRanges(FileFor(definition), definition.excel_source.sheet,
                definition.excel_source.excel_ranges, chart_args.closed_read)

\* The cells a sub-range d gives to row r of the combined dataset: its row r, or
\* empty strings where it has no row r.
PiecePlain(d, r) ==
    IF r <= Len(d) THEN d[r]
    ELSE [j \in 1..(IF d # <<>> /\ Len(d[1]) > 0 THEN Len(d[1]) ELSE 1) |-> <<>>]

\* The same, with the empty cells of row r as empty strings.
PieceBlanked(d, r) ==
    IF r <= Len(d) THEN [j \in 1..Len(d[r]) |-> IF d[r][j] = None THEN <<>> ELSE d[r][j]]
    ELSE PiecePlain(d, r)

\* The datasets of chart_result whose first entry has a list of ranges.
ListDatasets ==
    {ik \in (1..Len(chart_result)) \X (1..Len(MappedOnSlide)) :
        /\ FirstEntryFor(ik[2], chart_result[ik[1]].identifier)
        /\ MappedOnSlide[ik[2]].excel_source.excel_ranges # <<>>}

\* The combined dataset has as many rows as the longest fetched sub-range.
AsLongAsLongest(data, fetched) ==
    /\ \A n \in 1..Len(fetched) : Len(fetched[n]) <= Len(data)
    /\ \E n \in 1..Len(fetched) : Len(fetched[n]) = Len(data)

C19_NoEmptyDataset ==
    chart_done => \A i \in 1..Len(chart_result) : chart_result[i].data # <<>>

\* Whether the named range of a definition is qualified with another sheet than
\* the one the definition asks for.
CrossSheetName(definition) ==
    /\ definition.excel_source.excel_ranges = <<>>
    /\ Truthy(definition.excel_source.range_name)
    /\ FileFor(definition) \in ExistingFiles
    /\ definition.excel_source.range_name \in DOMAIN DefinedNames(FileFor(definition))
    /\ \E b \in 1..Len(DefinedNames(FileFor(definition))[definition.excel_source.range_name]) :
           /\ DefinedNames(FileFor(definition))[definition.excel_source.range_name][b] = "!"
           /\ SubSeq(DefinedNames(FileFor(definition))[definition.excel_source.range_name],
                     1, b - 1) # definition.excel_source.sheet

SingleForm(definition) ==
    IF ~Truthy(FileFor(definition)) THEN NoRows
    ELSE fetch_excel_data(FileFor(definition), definition.excel_source.sheet,
                          definition.excel_source.excel_ranges[1], None,
                          chart_args.closed_read)

\* The found charts whose first entry has a list of exactly one range, where the
\* mapping has a default file so that the charts of the slide are fetched.
OneRangeLists ==
    {ck \in (1..Len(FoundOnSlide)) \X (1..Len(MappedOnSlide)) :
        /\ Truthy(chart_args.mapping_data.excel_path)
        /\ Truthy(FoundOnSlide[ck[1]].name)
        /\ FirstEntryFor(ck[2], FoundOnSlide[ck[1]].name)
        /\ Len(MappedOnSlide[ck[2]].excel_source.excel_ranges) = 1}

\* C21: a chart whose entry has a list of exactly one range gets the dataset the
\* single-range form gives for that range, cell for cell with the empty (None)
\* cells unchanged, and no dataset where the single-range form gives none.
C21_OneRangeListAsSingleRange ==
    chart_done =>
        \A ck \in OneRangeLists :
            IF SingleForm(MappedOnSlide[ck[2]]).is_none
            THEN DatasetsOf(FoundOnSlide[ck[1]].name) = {}
            ELSE /\ DatasetsOf(FoundOnSlide[ck[1]].name) # {}
                 /\ \A i \in DatasetsOf(FoundOnSlide[ck[1]].name) :
                        chart_result[i].data = SingleForm(MappedOnSlide[ck[2]]).rows

\* The slide function_1_extract_pptx was called for.
ExtractedSlide == extract_args.prs.slides[extract_args.slide_number_1_based]

\* The positions of the table shapes among the shapes of the slide, in shape order.
TableShapesOf(slide) == {k \in 1..Len(slide.shapes) : slide.shapes[k].has_table}

\* The number of table shapes up to shape k.
TableRank(slide, k) == Cardinality({j \in TableShapesOf(slide) : j <= k})

\* C22: after function_1_extract_pptx on a slide of the deck, tables_data has one
\* entry per table shape of the slide in shape order, the entry of a table whose
\* extraction failed is the empty matrix, the entry of every other table holds
\* its rows of trimmed cell texts, and the shapes after a failed table are
\* extracted (the chart after it is identified).
C22_FailedTableRecordedEmpty ==
    (extract_done /\ extract_result.returned) =>
        /\ Len(extract_result.tables_data) = Cardinality(TableShapesOf(ExtractedSlide))
        /\ \A k \in TableShapesOf(ExtractedSlide) :
               extract_result.tables_data[TableRank(ExtractedSlide, k)] =
                   IF TableRaises(ExtractedSlide.shapes[k].table) THEN <<>>
                   ELSE [r \in 1..Len(ExtractedSlide.shapes[k].table) |->
                            [j \in 1..Len(ExtractedSlide.shapes[k].table[r]) |->
                                strip(ExtractedSlide.shapes[k].table[r][j].text)]]
        /\ Len(extract_result.chart_identifiers) =
               Cardinality({k \in 1..Len(ExtractedSlide.shapes) :
                               ExtractedSlide.shapes[k].has_chart})

\* The text regions of a slide that the claim has added: those with a text that is
\* not empty once trimmed and differs from the extracted title, whose top is not
\* beyond 85% of the slide height and whose height is not below 15% of it.
AcceptedRegions(slide, title, slide_height) ==
    {k \in 1..Len(slide.shapes) :
        /\ slide.shapes[k].has_text_frame
        /\ strip(slide.shapes[k].text) # <<>>
        /\ strip(slide.shapes[k].text) # title
        /\ ~(\/ 20 * slide.shapes[k].top > 17 * slide_height
             \/ 20 * slide.shapes[k].height < 3 * slide_height)}

\* C23: after function_1_extract_pptx on a slide of the deck, text_content holds
\* the trimmed text of exactly the text regions with a non-empty text that
\* differs from the extracted title and that are not boilerplate, in shape order;
\* a region is boilerplate if its top is beyond 85% of the slide height or its
\* height is below 15% of the slide height.
C23_TextBlocksExceptTitleAndBoilerplate ==
    (extract_done /\ extract_result.returned) =>
        /\ Len(extract_result.text_content) =
               Cardinality(AcceptedRegions(ExtractedSlide, extract_result.title,
                                           extract_args.prs.slide_height))
        /\ \A k \in AcceptedRegions(ExtractedSlide, extract_result.title,
                                    extract_args.prs.slide_height) :
               extract_result.text_content[
                   Cardinality({j \in AcceptedRegions(ExtractedSlide, extract_result.title,
                                                      extract_args.prs.slide_height) :
                                   j <= k})] = strip(ExtractedSlide.shapes[k].text)

\* A slide with a title has been extracted whose text region stands exactly at
\* 85% of the slide height and is exactly 15% of it high: the region is a text
\* block, the title shape is not.
C23_Witness ==
    /\ extract_done
    /\ extract_result.returned
    /\ extract_result.title = <<"O", "v", "e", "r", "v", "i", "e", "w">>
    /\ 20 * ExtractedSlide.shapes[2].top = 17 * extract_args.prs.slide_height
    /\ 20 * ExtractedSlide.shapes[2].height = 3 * extract_args.prs.slide_height
    /\ extract_result.text_content = <<<<"B", "o", "d", "y", " ", "t", "e", "x", "t">>>>

\* paste_all_text_to_ppt has returned.
Pasted == paste_calls > 0

\* The slides of the map that are slides of the deck.
MapSlides == DOMAIN all_insights_to_paste \cap DOMAIN PasteDeck

\* The first shape of slide s whose trimmed name is the trimmed target of entry k,
\* 0 if there is none.
TargetOf(s, k) ==
    Least({i \in 1..Len(PasteDeck[s]) :
              strip(PasteDeck[s][i].name) = strip(all_insights_to_paste[s][k].shape)})

\* Entry k of slide s has no text, or its text is the error sentinel.
NoUsableText(s, k) ==
    \/ all_insights_to_paste[s][k].text \in {None, <<>>}
    \/ /\ Len(all_insights_to_paste[s][k].text) >= Len(ErrorPrefix)
       /\ SubSeq(all_insights_to_paste[s][k].text, 1, Len(ErrorPrefix)) = ErrorPrefix

\* Entry k of slide s is one the claim has skipped.
Skipped(s, k) ==
    \/ NoUsableText(s, k)
    \/ TargetOf(s, k) = 0
    \/ ~PasteDeck[s][TargetOf(s, k)].has_text_frame

\* The entries of slide s that are placed in shape i, in the order of the map.
PlacedIn(s, i) ==
    {k \in 1..Len(all_insights_to_paste[s]) : ~Skipped(s, k) /\ TargetOf(s, k) = i}

\* What the text frame of a shape holds after an entry has been placed in it.
ParagraphsOf(entry) ==
    IF entry.type \in {"key_highlight", "chart_specific"}
    THEN NumberedParagraphs(StrippedLines(SplitAt(entry.text, 1, {"\n"})))
    ELSE <<entry.text>>

\* C24: after paste_all_text_to_ppt, every entry of a slide of the deck whose
\* target matches no shape, matches a shape without a text frame, or whose text is
\* missing or the error sentinel is recorded in failed_pastes, and every other
\* entry, of the same slide and of later slides, is placed: it is not recorded
\* and its target holds the text of the last entry placed in it.
C24_SkippedEntryRecordedOthersPlaced ==
    Pasted =>
        \A s \in MapSlides :
            \A k \in 1..Len(all_insights_to_paste[s]) :
                IF Skipped(s, k)
                THEN \E f \in 1..Len(failed_pastes) :
                         /\ failed_pastes[f].slide = s
                         /\ failed_pastes[f].shape = all_insights_to_paste[s][k].shape
                ELSE /\ \A f \in 1..Len(failed_pastes) :
                            ~(/\ failed_pastes[f].slide = s
                              /\ failed_pastes[f].shape = all_insights_to_paste[s][k].shape)
                     /\ presentation[s][TargetOf(s, k)].paragraphs =
                            ParagraphsOf(all_insights_to_paste[s][
                                MaxOf(PlacedIn(s, TargetOf(s, k)))])

\* A sentinel entry came first on slide 1 and was recorded, the entry after it was
\* placed, and so was the entry of slide 2.
C24_Witness ==
    /\ Pasted
    /\ MapSlides = {1, 2}
    /\ Len(all_insights_to_paste[1]) = 2
    /\ all_insights_to_paste[1][1].text = NoResponse
    /\ ~Skipped(1, 2)
    /\ ~Skipped(2, 1)
    /\ presentation[1][TargetOf(1, 2)].paragraphs # TemplateText
    /\ presentation[2][TargetOf(2, 1)].paragraphs = <<SummaryText>>
    /\ Len(failed_pastes) = 1

\* The lines of a text, trimmed, and the positions of those that are not empty.
TrimmedLine(text, j) == strip(SplitAt(text, 1, {"\n"})[j])

FilledLines(text) ==
    {j \in 1..Len(SplitAt(text, 1, {"\n"})) : TrimmedLine(text, j) # <<>>}

\* The first c characters of a trimmed line are a bullet or number token: a run of
\* digits, "-" and "*", a "." after it if there is one, and the blanks after that.
IsToken(line, c) ==
    \E b \in 1..c :
        /\ \A j \in 1..b : line[j] \in Digits \cup {"-", "*"}
        /\ \A j \in (b + 1)..c : (j = b + 1 /\ line[j] = ".") \/ line[j] \in Whitespace

\* A trimmed line without its leading token, the rest of the line as it is.
WithoutToken(line) ==
    strip(SubSeq(line, MaxOf({0} \cup {c \in 1..Len(line) : IsToken(line, c)}) + 1, Len(line)))

\* The narrative entries that are the last placed in their target.
PlacedNarratives ==
    {sk \in UNION {{<<s, k>> : k \in 1..Len(all_insights_to_paste[s])} : s \in MapSlides} :
        /\ ~Skipped(sk[1], sk[2])
        /\ all_insights_to_paste[sk[1]][sk[2]].type \in {"key_highlight", "chart_specific"}
        /\ sk[2] = MaxOf(PlacedIn(sk[1], TargetOf(sk[1], sk[2])))}

\* paragraphs is the heading and then, for the k-th non-empty line of text, the
\* paragraph "k. " and the line without its leading token.
HeadingAndNumberedLines(paragraphs, text) ==
    /\ Len(paragraphs) = 1 + Cardinality(FilledLines(text))
    /\ paragraphs[1] = HEADING_TEXT
    /\ \A j \in FilledLines(text) :
           paragraphs[1 + Cardinality({i \in FilledLines(text) : i <= j})] =
               NatToText(Cardinality({i \in FilledLines(text) : i <= j}))
               \o <<".", " ">> \o WithoutToken(TrimmedLine(text, j))

\* C25: after paste_all_text_to_ppt, the target of a placed key_highlight or
\* chart_specific entry holds the heading "Key Highlights" as its first paragraph
\* and then one paragraph per non-empty line of the text, in order; the k-th of
\* them (counting the non-empty lines only) is "k. " followed by the line without
\* its leading bullet or number token, the rest of the line unchanged.
C25_HeadingThenNumberedLines ==
    Pasted =>
        \A sk \in PlacedNarratives :
            HeadingAndNumberedLines(
                presentation[sk[1]][TargetOf(sk[1], sk[2])].paragraphs,
                all_insights_to_paste[sk[1]][sk[2]].text)

\* The narrative of five lines with empty lines between them has been placed.
C25_Witness ==
    /\ Pasted
    /\ Len(all_insights_to_paste[1]) = 1
    /\ all_insights_to_paste[1][1].text = ListedNarrative
    /\ presentation[1][2].paragraphs =
           <<HEADING_TEXT, <<"1", ".", " ", "I", "n", "s", "t", "a", "l", "l", "s", " ", "r", "o", "s", "e", " ", "1",
      "2", "%">>, <<"2", ".", " ", "T", "w", "o", " ", "m", "a", "r", "k", "e", "t", "s", " ", "o", "p", "e",
      "n", "e", "d">>,
             <<"3", ".", " ", "S", "p", "e", "n", "d", " ", "f", "e", "l", "l">>, <<"4", ".", " ", "R", "e", "t", "e", "n", "t", "i", "o", "n", " ", "f", "l", "a", "t">>>>

\* The shapes of slide s that differ from what they were before the paste.
ChangedShapes(s) == {i \in 1..Len(PasteDeck[s]) : presentation[s][i] # PasteDeck[s][i]}

\* C30: after paste_all_text_to_ppt every slide has the shapes it had, with their
\* names; a shape that has changed is the first shape of its slide whose trimmed
\* name is the trimmed target of an entry that was not skipped, so that an entry
\* changes at most one shape; every other shape is as it was: the shapes that no
\* entry targets, the later shapes with the name of a target, the targets of
\* skipped entries only, and the shapes of slides without entries.
C30_OnlyFirstTargetChanged ==
    Pasted =>
        /\ DOMAIN presentation = DOMAIN PasteDeck
        /\ \A s \in DOMAIN PasteDeck :
               /\ Len(presentation[s]) = Len(PasteDeck[s])
               /\ \A i \in 1..Len(PasteDeck[s]) :
                      /\ presentation[s][i].name = PasteDeck[s][i].name
                      /\ presentation[s][i].has_text_frame = PasteDeck[s][i].has_text_frame
               /\ \A i \in ChangedShapes(s) :
                      /\ s \in DOMAIN all_insights_to_paste
                      /\ PlacedIn(s, i) # {}
               /\ s \in DOMAIN all_insights_to_paste =>
                      Cardinality(ChangedShapes(s)) <=
                          Cardinality({k \in 1..Len(all_insights_to_paste[s]) : ~Skipped(s, k)})

\* On slide 1 an entry was placed in the first of the two shapes named "Insights
\* Box" and an entry for the summary box was skipped: the first shape has
\* changed, the second and the summary box have not.
C30_Witness ==
    /\ Pasted
    /\ Len(all_insights_to_paste[1]) = 2
    /\ all_insights_to_paste[1][1].shape = InsightsBox
    /\ ~Skipped(1, 1)
    /\ TargetOf(1, 2) = Len(PasteDeck[1])
    /\ NoUsableText(1, 2)
    /\ ChangedShapes(1) = {TargetOf(1, 1)}
    /\ presentation[1][Len(PasteDeck[1])].paragraphs = TemplateText

\* The texts the parser and the orchestrator record in place of an insight.
FailurePlaceholders ==
    {NoResponse, NoPromptGenerated, DataNotFound, PromptGenerationFailed, NoSummaryGenerated,
     NoChartInsights}

\* The paragraphs of the shapes of the deck.
DeckParagraphs ==
    UNION {UNION {Range(presentation[s][i].paragraphs) : i \in 1..Len(presentation[s])} :
              s \in DOMAIN presentation}

\* C26: in a deck that has been saved no paragraph of any shape holds one of the
\* failure placeholder texts.
C26_NoPlaceholderInSavedDeck ==
    saved => \A paragraph \in DeckParagraphs :
                 \A placeholder \in FailurePlaceholders : ~Contains(paragraph, placeholder)

\* The datasets of slide s with the identifier chart.
DatasetsNamed(s, chart) ==
    {i \in 1..Len(all_extracted_data[s].charts_excel_data) :
        all_extracted_data[s].charts_excel_data[i].identifier = chart}

\* The requests sent for the text box of a pair of slide s.
CallsFor(s, textbox) ==
    {c \in 1..Len(llm_calls) : llm_calls[c].slide = s /\ llm_calls[c].shape = textbox}

\* C27: for every pair (K, text box) of the chart-to-textbox table of a
\* chart-driven slide that has been handled, every request sent for the text box
\* is the chart request for the dataset named K; if the slide has no dataset
\* named K, no request is sent for the text box and its entry is "[Data not found
\* for chart]".
C27_NarrativeFromDatasetOfKey ==
    \A s \in ChartSlides \cap DOMAIN all_insights_to_paste :
        \A p \in 1..Len(ChartTextboxMap(s)) :
            /\ \A c \in CallsFor(s, ChartTextboxMap(s)[p].textbox) :
                   llm_calls[c].key = ChartPromptKey(s, ChartTextboxMap(s)[p].chart)
            /\ DatasetsNamed(s, ChartTextboxMap(s)[p].chart) = {} =>
                   /\ CallsFor(s, ChartTextboxMap(s)[p].textbox) = {}
                   /\ \A e \in EntriesFor(s, ChartTextboxMap(s)[p].textbox) :
                          all_insights_to_paste[s][e].text = DataNotFound

\* The chart entries of slide s whose narrative was generated: its text is none of
\* the failure placeholders.
GeneratedNarratives(s) ==
    {e \in EntriesOfType(s, "chart_specific") :
        /\ Truthy(all_insights_to_paste[s][e].text)
        /\ all_insights_to_paste[s][e].text \notin FailurePlaceholders}

\* C28: the synthesis prompt of a chart-driven slide that has been handled holds
\* none of the failure placeholders "[Data not found for chart]", "[Error: No
\* response from LLM]" and "[Prompt generation failed]", and if no chart narrative
\* of the slide was generated no synthesis request is sent.
C28_SynthesisFromGeneratedNarratives ==
    \A s \in ChartSlides \cap DOMAIN all_insights_to_paste :
        /\ SummaryPromptKey(s) \in DOMAIN all_prompts_generated =>
               \A placeholder \in {DataNotFound, NoResponse, PromptGenerationFailed} :
                   ~Contains(all_prompts_generated[SummaryPromptKey(s)], placeholder)
        /\ GeneratedNarratives(s) = {} => CallsUnder(s, SummaryPromptKey(s)) = {}

\* The run has passed the setup: the deck is loaded and the order is defined.
PassedSetup == pc \in {"loop", "paste", "save", "completed", "crashed"}

\* seq holds every slide of the deck once and nothing else.
IsPermutation(seq, num_slides) ==
    /\ Len(seq) = num_slides
    /\ \A n \in 1..num_slides : \E i \in 1..Len(seq) : seq[i] = n

\* The state of a run that has passed the setup: the order is a permutation of the
\* slides of the deck, the slides taken so far are its first idx - 1 slides, all of
\* them once the loop has ended, a slide whose content is held has been taken, and
\* a slide handled as a whole has at most one request.
OncePerSlide ==
    PassedSetup =>
        /\ IsPermutation(slides_to_process, env.num_slides)
        /\ visited = SubSeq(slides_to_process, 1, idx - 1)
        /\ \A i, j \in 1..Len(visited) : visited[i] = visited[j] => i = j
        /\ LoopEnded => IsPermutation(visited, env.num_slides)
        /\ \A s \in DOMAIN all_extracted_data : \E i \in 1..Len(visited) : visited[i] = s
        /\ \A s \in (1..env.num_slides) \ ChartSlides :
               Cardinality({c \in 1..Len(llm_calls) : llm_calls[c].slide = s}) <= 1

\* A step that stores extracted content stores that of the one slide being taken,
\* which had none, and leaves the content of every other slide as it was.
ExtractsOnce ==
    all_extracted_data' # all_extracted_data =>
        /\ InLoop
        /\ slides_to_process[idx] \notin DOMAIN all_extracted_data
        /\ DOMAIN all_extracted_data' = DOMAIN all_extracted_data \cup {slides_to_process[idx]}
        /\ \A s \in DOMAIN all_extracted_data : all_extracted_data'[s] = all_extracted_data[s]

\* C29: in every run that has passed the setup the processing order is a
\* permutation of the slides 1..N of the deck, every slide is taken exactly once,
\* the content of a slide is extracted at most once, and a slide handled as a
\* whole has at most one request to the completion service.
C29_EverySlideOnce == []OncePerSlide /\ [][ExtractsOnce]_vars

\* A run over a deck of at least eleven slides has ended its loop and completed:
\* every slide was taken, and the slides handled as a whole have one request each.
C29_Witness ==
    /\ pc = "completed"
    /\ env.num_slides >= 11
    /\ Len(visited) = env.num_slides
    /\ DOMAIN all_extracted_data = 1..env.num_slides
    /\ \A s \in (1..env.num_slides) \ ChartSlides :
           Cardinality({c \in 1..Len(llm_calls) : llm_calls[c].slide = s}) = 1

====
